---- MODULE Spec2Model ----
(***************************************************************************)
(* Rustduino: the USART configuration engine of the ATmega2560             *)
(* (src/src/atmega2560p/com/usart_initialize.rs) as a state machine.       *)
(*                                                                         *)
(* The registers are bytes of memory.  A Usart handle is the address that  *)
(* Usart::new returns; the methods reach the unit's registers through that *)
(* address and find the unit's number again with get_num.  One call of a   *)
(* public operation runs at a time; it advances one volatile register      *)
(* access per step, and between two steps the hardware may change the      *)
(* status flags and, while the global interrupt flag is set, an interrupt  *)
(* handler may run.                                                        *)
(***************************************************************************)
EXTENDS Integers, Sequences, FiniteSets, TLC

VARIABLES ucsra, ucsrb, ucsrc, ubrrl, ubrrh, udr,  \* the units' registers, by address
          prr0, prr1,                              \* power reduction registers
          ddr,                                     \* data direction register of each port
          sreg,                                    \* AVR status register, bit 7 = global interrupt flag
          op, pc,                                  \* the running operation and its position
          self, mode, baud, stop, size, parity,    \* the handle and the arguments of the call
          polarity,                                \* the argument of set_polarity
          num, ubrr,                               \* locals of initialize and of set_clock
          lastread,                                \* the value check_ongoing read last
          entry,                                   \* the registers as they were when the call began
          trace,                                   \* the steps of initialize taken by this call
          isr_at,                                  \* where the call stood when a handler last ran
          ret,                                     \* what the call returned
          calls,                                   \* the calls made so far
          hist,                                    \* per unit: the mode of its last completed initialize,
                                                   \* and of its last one with a synchronous mode
          io328,                                   \* ATmega328P data space, by address (watchdog registers)
          mpu,                                     \* MPU6050 register file, by register number
          adc,                                     \* ATmega2560 ADC registers (struct Analog)
          arg,                                     \* the argument of a watchdog, sensor or ADC call
          local                                    \* the locals of that call

regs == <<ucsra, ucsrb, ucsrc, ubrrl, ubrrh, udr, prr0, prr1, ddr>>
args == <<self, mode, baud, stop, size, parity, polarity>>
vars == <<ucsra, ucsrb, ucsrc, ubrrl, ubrrh, udr, prr0, prr1, ddr, sreg, op, pc,
          self, mode, baud, stop, size, parity, polarity, num, ubrr, lastread, entry,
          trace, isr_at, ret, calls, hist, io328, mpu, adc, arg, local>>

\* The state outside the USART engine.
periph == <<io328, mpu, adc, arg, local>>

(***************************************************************************)
(* Constants of the source.                                                *)
(***************************************************************************)
usart0_xck == 2
usart1_xck == 5
usart2_xck == 2
usart3_xck == 2
usart0_td == 1
usart1_td == 3
usart2_td == 1
usart3_td == 1
usart0_rd == 0
usart1_rd == 2
usart2_rd == 0
usart3_rd == 0
f_osc == 1
multiply == 1000000

UsartNum == {"usart0", "usart1", "usart2", "usart3"}
UsartModes == {"norm_async", "dou_async", "master_sync", "slave_sync"}
UsartParity == {"no", "even", "odd"}
UsartDataSize == {"five", "six", "seven", "eight", "nine"}
UsartStop == {"one", "two"}
UsartPolarity == {"output_rise", "input_rise"}
PortName == {"E", "D", "H", "J"}

(***************************************************************************)
(* Bit access to a byte, as the bit_field crate's get_bit, set_bit and     *)
(* set_bits are used by the source.                                        *)
(***************************************************************************)
get_bit(v, i) == (v \div (2 ^ i)) % 2 = 1

set_bit(v, i, b) ==
    IF b THEN (IF get_bit(v, i) THEN v ELSE v + 2 ^ i)
         ELSE (IF get_bit(v, i) THEN v - 2 ^ i ELSE v)

\* bit_field's set_bits asserts that val fits in the hi-lo bits of the range.
set_bits_fits(lo, hi, val) == val < 2 ^ (hi - lo)

\* Bits lo..hi-1 of v replaced by val; a val that does not fit panics
\* ("value does not fit into bit range").
set_bits(v, lo, hi, val) ==
    LET width == 2 ^ (hi - lo)
        old   == (v \div (2 ^ lo)) % width
    IN  IF set_bits_fits(lo, hi, val)
        THEN v - old * (2 ^ lo) + val * (2 ^ lo)
        ELSE "panic"

(***************************************************************************)
(* Unit Resolver.                                                          *)
(***************************************************************************)
\* Usart::new: the address of the unit's register block.
new(n) ==
    CASE n = "usart0" -> 192     \* 0xC0
      [] n = "usart1" -> 200     \* 0xC8
      [] n = "usart2" -> 208     \* 0xD0
      [] n = "usart3" -> 304     \* 0x130

Addr == {new(n) : n \in UsartNum}

\* get_num with the fourth literal kept at 0x130, a value no u8 equals.
get_num_unwrapped_literal(s) ==
    LET address == s % 256
    IN  CASE address = 192 -> "usart0"
          [] address = 200 -> "usart1"
          [] address = 208 -> "usart2"
          [] address = 304 -> "usart3"
          [] OTHER         -> "unreachable"

\* get_num: the address is cast to u8 before it is matched against the four
\* address literals; a value that matches none reaches unreachable!().  The
\* literal 0x130 is a pattern of a u8 match and wraps to 0x30, as the handle
\* of usart3 does.
get_num(s) ==
    LET address == s % 256
    IN  CASE address = 192 -> "usart0"
          [] address = 200 -> "usart1"
          [] address = 208 -> "usart2"
          [] address = 304 % 256 -> "usart3"
          [] OTHER         -> "unreachable"

get_port_always_E(n) == "E"

get_port(n) ==
    CASE n = "usart0" -> "E"
      [] n = "usart1" -> "D"
      [] n = "usart2" -> "H"
      [] n = "usart3" -> "J"

get_xck(n) ==
    CASE n = "usart0" -> usart0_xck
      [] n = "usart1" -> usart1_xck
      [] n = "usart2" -> usart2_xck
      [] n = "usart3" -> usart3_xck

get_td(n) ==
    CASE n = "usart0" -> usart0_td
      [] n = "usart1" -> usart1_td
      [] n = "usart2" -> usart2_td
      [] n = "usart3" -> usart3_td

get_rd(n) ==
    CASE n = "usart0" -> usart0_rd
      [] n = "usart1" -> usart1_rd
      [] n = "usart2" -> usart2_rd
      [] n = "usart3" -> usart3_rd

(***************************************************************************)
(* Global interrupt flag (hal::interrupts::GlobalInterrupts): disable      *)
(* clears bit 7 of SREG, enable sets it.                                   *)
(***************************************************************************)
GlobalInterrupts_disable(s) == set_bit(s, 7, FALSE)
GlobalInterrupts_enable(s) == set_bit(s, 7, TRUE)

\* Usart::disable and Usart::enable.
disable_forgotten(s) == s

disable(s) == GlobalInterrupts_disable(s)
enable(s) == GlobalInterrupts_enable(s)

IntEnabled(s) == get_bit(s, 7)

(***************************************************************************)
(* Power Gate: set_power clears the unit's bit of PRR0 or PRR1.            *)
(***************************************************************************)
set_power_prr0(p, n) == IF n = "usart0" THEN set_bit(p, 1, FALSE) ELSE p

set_power_prr1_shifted(p, n) ==
    CASE n = "usart1" -> set_bit(p, 1, FALSE)
      [] n = "usart2" -> set_bit(p, 2, FALSE)
      [] n = "usart3" -> set_bit(p, 3, FALSE)
      [] OTHER        -> p

set_power_prr1(p, n) ==
    CASE n = "usart1" -> set_bit(p, 0, FALSE)
      [] n = "usart2" -> set_bit(p, 1, FALSE)
      [] n = "usart3" -> set_bit(p, 2, FALSE)
      [] OTHER        -> p

(***************************************************************************)
(* Quiescence Gate: check_ongoing is true when TXC (bit 6) is set and RXC  *)
(* (bit 7) is clear.                                                       *)
(***************************************************************************)
check_ongoing_txc_only(sra) == get_bit(sra, 6)

check_ongoing_rxc_only(sra) == ~get_bit(sra, 7)

check_ongoing(sra) == get_bit(sra, 6) /\ ~get_bit(sra, 7)

(***************************************************************************)
(* Clock polarity: get_mode is true when UCSRC bit 6 is set (synchronous); *)
(* set_polarity writes UCSRC bit 0.                                        *)
(***************************************************************************)
get_mode(src) == (src \div 64) % 2 # 0

set_polarity(src, sync, pol) ==
    IF ~sync THEN set_bit(src, 0, FALSE)
    ELSE CASE pol = "output_rise" -> set_bit(src, 0, FALSE)
           [] pol = "input_rise"  -> set_bit(src, 0, TRUE)

(***************************************************************************)
(* Mode/Clock Configurator.                                                *)
(***************************************************************************)
\* mode_select, first match: UCSRC bits 6 and 7.
mode_select_ucsrc(src, m) ==
    IF m \in {"norm_async", "dou_async"}
    THEN set_bit(set_bit(src, 6, FALSE), 7, FALSE)
    ELSE set_bit(set_bit(src, 6, TRUE), 7, FALSE)

\* mode_select, second match, the asynchronous arms: UCSRA bit 1 (U2X).
mode_select_ucsra_set_only(sra, m) ==
    IF m = "dou_async" THEN set_bit(sra, 1, TRUE) ELSE sra

mode_select_ucsra(sra, m) ==
    IF m = "dou_async" THEN set_bit(sra, 1, TRUE) ELSE set_bit(sra, 1, FALSE)

\* mode_select, second match, the synchronous arms: the XCK bit of the port's DDR.
mode_select_ddr_swapped(d, m, xck) ==
    IF m = "master_sync" THEN set_bit(d, xck, FALSE) ELSE set_bit(d, xck, TRUE)

mode_select_ddr_never_released(d, m, xck) ==
    IF m = "master_sync" THEN set_bit(d, xck, TRUE) ELSE d

mode_select_ddr(d, m, xck) ==
    IF m = "master_sync" THEN set_bit(d, xck, TRUE) ELSE set_bit(d, xck, FALSE)

\* The multiplier of baud in set_clock's three arms.
clock_multiplier_always_16(m) == 16

clock_multiplier(m) ==
    CASE m = "norm_async"  -> 16
      [] m = "dou_async"   -> 8
      [] m = "master_sync" -> 2

\* The divisor of the formula, before it is stored in the u32 local.
divisor(b, m) == ((f_osc * multiply) \div (clock_multiplier(m) * b)) - 1

\* A u32 as its two 16-bit halves (two's complement for a negative value).
u32(v) == [hi |-> (v \div 65536) % 65536, lo |-> v % 65536]

\* set_clock's local ubrr : u32.  A negative result has no u32 value: the
\* conversion either wraps it (integer arithmetic) or saturates it at 0
\* (conversion from the f64 that f_osc makes of the quotient).
set_clock_ubrr(b, m) ==
    IF divisor(b, m) >= 0 THEN {u32(divisor(b, m))}
                          ELSE {u32(divisor(b, m)), u32(0)}

\* self.ubrrl.set_bits(0..8,ubrr) and self.ubrrh.set_bits(0..4,(ubrr>>8)):
\* the value is a u8, the low byte of ubrr and of ubrr>>8.
set_clock_ubrrl(l, u) == set_bits(l, 0, 8, u.lo % 256)
set_clock_ubrrh(h, u) == set_bits(h, 0, 4, (u.lo \div 256) % 256)
set_clock_ubrrh_fits(u) == set_bits_fits(0, 4, (u.lo \div 256) % 256)

(***************************************************************************)
(* Frame Configurator.                                                     *)
(***************************************************************************)
set_size_ucsrb(srb, sz) == set_bit(srb, 2, sz = "nine")
set_size_ucsrc2(src, sz) == set_bit(src, 2, sz \in {"nine", "seven", "eight"})
set_size_ucsrc1_nine_clear(src, sz) == set_bit(src, 1, sz \in {"six", "eight"})

set_size_ucsrc1(src, sz) == set_bit(src, 1, sz \in {"nine", "six", "eight"})

set_parity_swapped(src, p) ==
    CASE p = "no"   -> set_bit(set_bit(src, 4, FALSE), 5, FALSE)
      [] p = "even" -> set_bit(set_bit(src, 4, TRUE), 5, TRUE)
      [] p = "odd"  -> set_bit(set_bit(src, 4, FALSE), 5, TRUE)

set_parity(src, p) ==
    CASE p = "no"   -> set_bit(set_bit(src, 4, FALSE), 5, FALSE)
      [] p = "even" -> set_bit(set_bit(src, 4, FALSE), 5, TRUE)
      [] p = "odd"  -> set_bit(set_bit(src, 4, TRUE), 5, TRUE)

set_stop_on_bit4(src, st) == set_bit(src, 4, st = "two")

set_stop(src, st) == set_bit(src, 3, st = "two")

(***************************************************************************)
(* Inputs and initial register contents.                                   *)
(***************************************************************************)
\* Baud rates: for each clocked mode one with a divisor below 256, one with
\* a divisor in 256..4095, one above 4095 and one that is negative.
Bauds == {15, 200, 9600, 600000}

\* Two register images: the reset values, and one with the opposite value in
\* every bit the engine writes.
Images == {"reset", "set"}

Image(i) ==
    IF i = "reset"
    THEN [ucsra |-> 32,  ucsrb |-> 0,   ucsrc |-> 6,   ubrrl |-> 0,   ubrrh |-> 0,
          udr |-> 0,     prr0 |-> 0,    prr1 |-> 0,    ddr |-> 0]
    ELSE [ucsra |-> 35,  ucsrb |-> 220, ucsrc |-> 255, ubrrl |-> 255, ubrrh |-> 15,
          udr |-> 165,   prr0 |-> 255,  prr1 |-> 63,   ddr |-> 255]

\* The watchdog, the sensor and the ADC are not used by the USART engine.
PeriphUnused ==
    /\ io328 = [a \in {} |-> 0]
    /\ mpu = [r \in {} |-> 0]
    /\ adc = [r \in {} |-> 0]
    /\ arg = "none"
    /\ local = "none"

Snapshot ==
    [ucsra |-> ucsra, ucsrb |-> ucsrb, ucsrc |-> ucsrc, ubrrl |-> ubrrl,
     ubrrh |-> ubrrh, udr |-> udr, prr0 |-> prr0, prr1 |-> prr1, ddr |-> ddr,
     sreg |-> sreg]

Init ==
    /\ \E i \in Images :
          /\ ucsra = [a \in Addr |-> Image(i).ucsra]
          /\ ucsrb = [a \in Addr |-> Image(i).ucsrb]
          /\ ucsrc = [a \in Addr |-> Image(i).ucsrc]
          /\ ubrrl = [a \in Addr |-> Image(i).ubrrl]
          /\ ubrrh = [a \in Addr |-> Image(i).ubrrh]
          /\ udr   = [a \in Addr |-> Image(i).udr]
          /\ prr0 = Image(i).prr0
          /\ prr1 = Image(i).prr1
          /\ ddr = [p \in PortName |-> Image(i).ddr]
    /\ sreg \in {0, 128}
    /\ op = "none"
    /\ pc = "idle"
    /\ self = new("usart0")
    /\ mode = "norm_async"
    /\ baud = 9600
    /\ stop = "one"
    /\ size = "five"
    /\ parity = "no"
    /\ polarity = "output_rise"
    /\ num = "none"
    /\ ubrr = u32(0)
    /\ lastread = 0
    /\ entry = Snapshot
    /\ trace = <<>>
    /\ isr_at = "none"
    /\ ret = "none"
    /\ calls = 0
    /\ hist = [a \in Addr |-> [last |-> "none", sync |-> "none"]]
    /\ PeriphUnused

(***************************************************************************)
(* Calls of the public operations.                                         *)
(***************************************************************************)
CallInitialize(Units, Modes, Rates, Stops, Sizes, Parities) ==
    /\ pc = "idle"
    /\ \E n \in Units, m \in Modes, b \in Rates, st \in Stops,
          sz \in Sizes, p \in Parities :
          /\ self' = new(n)
          /\ mode' = m
          /\ baud' = b
          /\ stop' = st
          /\ size' = sz
          /\ parity' = p
    /\ op' = "initialize"
    /\ pc' = "wait"
    /\ entry' = Snapshot
    /\ calls' = calls + 1
    /\ UNCHANGED <<regs, sreg, polarity, num, ubrr, lastread, trace, isr_at, ret, hist, periph>>

Call_initialize ==
    CallInitialize(UsartNum, UsartModes, Bauds, UsartStop, UsartDataSize, UsartParity)

CallModeSelect(Units, Modes) ==
    /\ pc = "idle"
    /\ \E n \in Units, m \in Modes :
          /\ self' = new(n)
          /\ mode' = m
    /\ op' = "mode_select"
    /\ pc' = "mode1"
    /\ entry' = Snapshot
    /\ calls' = calls + 1
    /\ UNCHANGED <<regs, sreg, baud, stop, size, parity, polarity, num, ubrr, lastread,
                   trace, isr_at, ret, hist, periph>>

Call_mode_select == CallModeSelect(UsartNum, UsartModes)

\* pub fn set_polarity(&self, mode : UsartPolarity)
CallSetPolarity(Units, Polarities) ==
    /\ pc = "idle"
    /\ \E n \in Units, p \in Polarities :
          /\ self' = new(n)
          /\ polarity' = p
    /\ op' = "set_polarity"
    /\ pc' = "get_mode"
    /\ entry' = Snapshot
    /\ calls' = calls + 1
    /\ UNCHANGED <<regs, sreg, mode, baud, stop, size, parity, num, ubrr, lastread,
                   trace, isr_at, ret, hist, periph>>

(***************************************************************************)
(* initialize, step by step.                                               *)
(***************************************************************************)
\* while self.check_ongoing()==false { }
Wait ==
    /\ pc = "wait"
    /\ lastread' = ucsra[self]
    /\ IF check_ongoing(ucsra[self])
       THEN pc' = "disable" /\ trace' = Append(trace, "gate")
       ELSE pc' = "wait" /\ trace' = trace
    /\ UNCHANGED <<regs, sreg, op, args, num, ubrr, entry, isr_at, ret, calls, hist, periph>>

\* self.disable()
Disable ==
    /\ pc = "disable"
    /\ sreg' = disable(sreg)
    /\ pc' = "get_num"
    /\ trace' = Append(trace, "disable")
    /\ UNCHANGED <<regs, op, args, num, ubrr, lastread, entry, isr_at, ret, calls, hist, periph>>

\* let num : UsartNum = self.get_num()
GetNum ==
    /\ pc = "get_num"
    /\ num' = get_num(self)
    /\ pc' = IF get_num(self) = "unreachable" THEN "panic" ELSE "set_power"
    /\ UNCHANGED <<regs, sreg, op, args, ubrr, lastread, entry, trace, isr_at, ret, calls, hist, periph>>

\* self.set_power(num)
SetPower ==
    /\ pc = "set_power"
    /\ prr0' = set_power_prr0(prr0, num)
    /\ prr1' = set_power_prr1(prr1, num)
    /\ pc' = "mode1"
    /\ trace' = Append(trace, "set_power")
    /\ UNCHANGED <<ucsra, ucsrb, ucsrc, ubrrl, ubrrh, udr, ddr, sreg, op, args,
                   num, ubrr, lastread, entry, isr_at, ret, calls, hist, periph>>

\* mode_select, first match: the update of UCSRC.
ModeSelect1 ==
    /\ pc = "mode1"
    /\ ucsrc' = [ucsrc EXCEPT ![self] = mode_select_ucsrc(ucsrc[self], mode)]
    /\ pc' = IF mode \in {"master_sync", "slave_sync"} THEN "mode1a" ELSE "mode2"
    /\ trace' = IF op = "initialize" THEN Append(trace, "mode_select") ELSE trace
    /\ UNCHANGED <<ucsra, ucsrb, ubrrl, ubrrh, udr, prr0, prr1, ddr, sreg, op,
                   args, num, ubrr, lastread, entry, isr_at, ret, calls, hist, periph>>

\* mode_select, first match, synchronous arm: U2X is cleared.
ModeSelect1a ==
    /\ pc = "mode1a"
    /\ ucsra' = [ucsra EXCEPT ![self] = set_bit(ucsra[self], 1, FALSE)]
    /\ pc' = "mode2"
    /\ UNCHANGED <<ucsrb, ucsrc, ubrrl, ubrrh, udr, prr0, prr1, ddr, sreg, op,
                   args, num, ubrr, lastread, entry, trace, isr_at, ret, calls, hist, periph>>

\* Where the caller of mode_select goes on: initialize to set_clock or, for
\* slave_sync, straight to set_frame; a direct call returns.
AfterModeSelect_always_clock == IF op = "initialize" THEN "clock_l" ELSE "done"

AfterModeSelect ==
    IF op = "initialize"
    THEN (IF mode = "slave_sync" THEN "size_b" ELSE "clock_l")
    ELSE "done"

\* mode_select, second match.
ModeSelect2 ==
    /\ pc = "mode2"
    /\ IF mode \in {"norm_async", "dou_async"}
       THEN /\ ucsra' = [ucsra EXCEPT ![self] = mode_select_ucsra(ucsra[self], mode)]
            /\ pc' = AfterModeSelect
            /\ UNCHANGED ddr
       ELSE IF get_num(self) = "unreachable"
            THEN /\ pc' = "panic"
                 /\ UNCHANGED <<ucsra, ddr>>
            ELSE /\ ddr' = [ddr EXCEPT ![get_port(get_num(self))] =
                              mode_select_ddr(@, mode, get_xck(get_num(self)))]
                 /\ pc' = AfterModeSelect
                 /\ UNCHANGED ucsra
    /\ trace' = IF op = "initialize" /\ pc' = "size_b"
                THEN Append(trace, "set_frame")
                ELSE IF op = "initialize" /\ pc' = "clock_l"
                     THEN Append(trace, "set_clock") ELSE trace
    /\ ret' = IF pc' = "done" THEN "unit" ELSE ret
    /\ UNCHANGED <<ucsrb, ucsrc, ubrrl, ubrrh, udr, prr0, prr1, sreg, op, args,
                   num, ubrr, lastread, entry, isr_at, calls, hist, periph>>

\* set_clock: the divisor is computed and its low byte written to UBRRL.
SetClockL ==
    /\ pc = "clock_l"
    /\ IF mode = "slave_sync"
       THEN /\ pc' = "panic"
            /\ UNCHANGED <<ubrr, ubrrl, trace>>
       ELSE /\ \E u \in set_clock_ubrr(baud, mode) :
                  /\ ubrr' = u
                  /\ ubrrl' = [ubrrl EXCEPT ![self] = set_clock_ubrrl(@, u)]
            /\ pc' = "clock_h"
            /\ trace' = trace
    /\ UNCHANGED <<ucsra, ucsrb, ucsrc, ubrrh, udr, prr0, prr1, ddr, sreg, op,
                   args, num, lastread, entry, isr_at, ret, calls, hist, periph>>

\* set_clock: bits 8..11 of the divisor written to bits 0..3 of UBRRH; a
\* divisor above 4095 panics in set_bits.
SetClockH ==
    /\ pc = "clock_h"
    /\ IF set_clock_ubrrh_fits(ubrr)
       THEN /\ ubrrh' = [ubrrh EXCEPT ![self] = set_clock_ubrrh(@, ubrr)]
            /\ pc' = "size_b"
            /\ trace' = Append(trace, "set_frame")
       ELSE /\ pc' = "panic"
            /\ UNCHANGED <<ubrrh, trace>>
    /\ UNCHANGED <<ucsra, ucsrb, ucsrc, ubrrl, udr, prr0, prr1, ddr, sreg, op,
                   args, num, ubrr, lastread, entry, isr_at, ret, calls, hist, periph>>

\* set_size: its three updates.
SetSizeB ==
    /\ pc = "size_b"
    /\ ucsrb' = [ucsrb EXCEPT ![self] = set_size_ucsrb(@, size)]
    /\ pc' = "size_c2"
    /\ UNCHANGED <<ucsra, ucsrc, ubrrl, ubrrh, udr, prr0, prr1, ddr, sreg, op,
                   args, num, ubrr, lastread, entry, trace, isr_at, ret, calls, hist, periph>>

SetSizeC2 ==
    /\ pc = "size_c2"
    /\ ucsrc' = [ucsrc EXCEPT ![self] = set_size_ucsrc2(@, size)]
    /\ pc' = "size_c1"
    /\ UNCHANGED <<ucsra, ucsrb, ubrrl, ubrrh, udr, prr0, prr1, ddr, sreg, op,
                   args, num, ubrr, lastread, entry, trace, isr_at, ret, calls, hist, periph>>

SetSizeC1 ==
    /\ pc = "size_c1"
    /\ ucsrc' = [ucsrc EXCEPT ![self] = set_size_ucsrc1(@, size)]
    /\ pc' = "parity"
    /\ UNCHANGED <<ucsra, ucsrb, ubrrl, ubrrh, udr, prr0, prr1, ddr, sreg, op,
                   args, num, ubrr, lastread, entry, trace, isr_at, ret, calls, hist, periph>>

SetParity ==
    /\ pc = "parity"
    /\ ucsrc' = [ucsrc EXCEPT ![self] = set_parity(@, parity)]
    /\ pc' = "stop"
    /\ UNCHANGED <<ucsra, ucsrb, ubrrl, ubrrh, udr, prr0, prr1, ddr, sreg, op,
                   args, num, ubrr, lastread, entry, trace, isr_at, ret, calls, hist, periph>>

SetStop ==
    /\ pc = "stop"
    /\ ucsrc' = [ucsrc EXCEPT ![self] = set_stop(@, stop)]
    /\ pc' = "enable"
    /\ UNCHANGED <<ucsra, ucsrb, ubrrl, ubrrh, udr, prr0, prr1, ddr, sreg, op,
                   args, num, ubrr, lastread, entry, trace, isr_at, ret, calls, hist, periph>>

\* self.enable(), and the return of initialize.
Enable ==
    /\ pc = "enable"
    /\ sreg' = enable(sreg)
    /\ pc' = "done"
    /\ trace' = Append(trace, "enable")
    /\ ret' = "unit"
    /\ hist' = [hist EXCEPT ![self] =
                  [last |-> mode,
                   sync |-> IF mode \in {"master_sync", "slave_sync"} THEN mode ELSE @.sync]]
    /\ UNCHANGED <<regs, op, args, num, ubrr, lastread, entry, isr_at, calls, periph>>

(***************************************************************************)
(* set_polarity, step by step.                                             *)
(***************************************************************************)
\* self.get_mode(): get_num() and the read of UCSRC
GetMode ==
    /\ pc = "get_mode"
    /\ num' = get_num(self)
    /\ IF get_num(self) = "unreachable"
       THEN pc' = "panic" /\ lastread' = lastread
       ELSE pc' = "polarity" /\ lastread' = ucsrc[self]
    /\ UNCHANGED <<regs, sreg, op, args, ubrr, entry, trace, isr_at, ret, calls, hist, periph>>

\* the update of UCSRC bit 0, and the return of set_polarity
SetPolarity ==
    /\ pc = "polarity"
    /\ ucsrc' = [ucsrc EXCEPT ![self] = set_polarity(@, get_mode(lastread), polarity)]
    /\ pc' = "done"
    /\ ret' = "unit"
    /\ UNCHANGED <<ucsra, ucsrb, ubrrl, ubrrh, udr, prr0, prr1, ddr, sreg, op,
                   args, num, ubrr, lastread, entry, trace, isr_at, calls, hist, periph>>

(***************************************************************************)
(* The environment.                                                        *)
(***************************************************************************)
\* The hardware sets and clears TXC and RXC of the unit while the caller polls.
HwStatus ==
    /\ pc = "wait"
    /\ \E tx \in BOOLEAN, rx \in BOOLEAN :
          ucsra' = [ucsra EXCEPT ![self] = set_bit(set_bit(@, 6, tx), 7, rx)]
    /\ UNCHANGED <<ucsrb, ucsrc, ubrrl, ubrrh, udr, prr0, prr1, ddr, sreg, op, pc,
                   args, num, ubrr, lastread, entry, trace, isr_at, ret, calls, hist, periph>>

\* An interrupt handler runs between two steps of the call: only while the
\* global interrupt flag is set.
Isr ==
    /\ IntEnabled(sreg)
    /\ pc \notin {"idle", "done", "panic"}
    /\ isr_at' = pc
    /\ udr' = [udr EXCEPT ![self] = 85]
    /\ UNCHANGED <<ucsra, ucsrb, ucsrc, ubrrl, ubrrh, prr0, prr1, ddr, sreg, op, pc,
                   args, num, ubrr, lastread, entry, trace, ret, calls, hist, periph>>

Step ==
    \/ Wait \/ Disable \/ GetNum \/ SetPower
    \/ ModeSelect1 \/ ModeSelect1a \/ ModeSelect2
    \/ SetClockL \/ SetClockH
    \/ SetSizeB \/ SetSizeC2 \/ SetSizeC1 \/ SetParity \/ SetStop
    \/ Enable

Next ==
    \/ Call_initialize
    \/ Call_mode_select
    \/ Step
    \/ HwStatus
    \/ Isr

Spec == Init /\ [][Next]_vars

(***************************************************************************)
(* Sequences of initialize calls on one program run, from the reset        *)
(* values: a call that has returned is followed by the next one.           *)
(***************************************************************************)
MaxCalls == 2

SeqInit == Init /\ prr0 = Image("reset").prr0 /\ ubrrl = [a \in Addr |-> Image("reset").ubrrl]

Seq_Call_initialize ==
    /\ calls < MaxCalls
    /\ CallInitialize({"usart0", "usart1"}, UsartModes, {9600}, {"one"},
                      {"five", "nine"}, {"no"})

\* initialize has returned: its locals are gone, the caller goes on.
Return ==
    /\ pc = "done"
    /\ pc' = "idle"
    /\ op' = "none"
    /\ num' = "none"
    /\ ubrr' = u32(0)
    /\ lastread' = 0
    /\ trace' = <<>>
    /\ isr_at' = "none"
    /\ ret' = "none"
    /\ entry' = Snapshot
    /\ UNCHANGED <<regs, sreg, args, calls, hist, periph>>

NextSeq ==
    \/ Seq_Call_initialize
    \/ Return
    \/ Step
    \/ HwStatus
    \/ Isr

SpecSeq == SeqInit /\ [][NextSeq]_vars

(***************************************************************************)
(* The private operations set_power, set_size, set_parity and set_stop     *)
(* on their own, from arbitrary register contents: set_power applied       *)
(* repeatedly, and the three frame writes applied once each in any order.  *)
(***************************************************************************)
MaxApply == 2

Bytes == 0 .. 255
PowerBytes == 0 .. 63          \* PRR1 implements bits 0..5
Corner == {0, 255}

PartsInit ==
    /\ op \in {"set_power", "set_frame"}
    /\ pc = "parts"
    /\ \E n \in UsartNum : self = new(n) /\ num = n
    /\ IF op = "set_power"
       THEN /\ prr0 \in Bytes
            /\ prr1 \in PowerBytes
            /\ ucsrb = [a \in Addr |-> Image("reset").ucsrb]
            /\ ucsrc = [a \in Addr |-> Image("reset").ucsrc]
            /\ size = "five" /\ parity = "no" /\ stop = "one"
       ELSE /\ prr0 = Image("reset").prr0
            /\ prr1 = Image("reset").prr1
            /\ self = new("usart0")
            /\ \E b \in Bytes, c \in Bytes :
                  /\ b \in Corner \/ c \in Corner
                  /\ ucsrb = [a \in Addr |-> IF a = self THEN b ELSE Image("reset").ucsrb]
                  /\ ucsrc = [a \in Addr |-> IF a = self THEN c ELSE Image("reset").ucsrc]
            /\ size \in UsartDataSize /\ parity \in UsartParity /\ stop \in UsartStop
    /\ ucsra = [a \in Addr |-> Image("reset").ucsra]
    /\ ubrrl = [a \in Addr |-> Image("reset").ubrrl]
    /\ ubrrh = [a \in Addr |-> Image("reset").ubrrh]
    /\ udr   = [a \in Addr |-> Image("reset").udr]
    /\ ddr = [p \in PortName |-> Image("reset").ddr]
    /\ sreg = 0
    /\ mode = "norm_async"
    /\ baud = 9600
    /\ polarity = "output_rise"
    /\ ubrr = u32(0)
    /\ lastread = 0
    /\ entry = Snapshot
    /\ trace = <<>>
    /\ isr_at = "none"
    /\ ret = "none"
    /\ calls = 0
    /\ hist = [a \in Addr |-> [last |-> "none", sync |-> "none"]]
    /\ PeriphUnused

Applied(e) == \E i \in DOMAIN trace : trace[i] = e

\* set_power(num)
Part_set_power ==
    /\ op = "set_power" /\ calls < MaxApply
    /\ prr0' = set_power_prr0(prr0, num)
    /\ prr1' = set_power_prr1(prr1, num)
    /\ calls' = calls + 1
    /\ trace' = Append(trace, "set_power")
    /\ UNCHANGED <<ucsra, ucsrb, ucsrc, ubrrl, ubrrh, udr, ddr, sreg, op, pc, args,
                   num, ubrr, lastread, entry, isr_at, ret, hist, periph>>

\* set_size(size): its three updates
Part_set_size ==
    /\ op = "set_frame" /\ ~Applied("set_size")
    /\ ucsrb' = [ucsrb EXCEPT ![self] = set_size_ucsrb(@, size)]
    /\ ucsrc' = [ucsrc EXCEPT ![self] = set_size_ucsrc1(set_size_ucsrc2(@, size), size)]
    /\ calls' = calls + 1
    /\ trace' = Append(trace, "set_size")
    /\ UNCHANGED <<ucsra, ubrrl, ubrrh, udr, prr0, prr1, ddr, sreg, op, pc, args,
                   num, ubrr, lastread, entry, isr_at, ret, hist, periph>>

\* set_parity(parity)
Part_set_parity ==
    /\ op = "set_frame" /\ ~Applied("set_parity")
    /\ ucsrc' = [ucsrc EXCEPT ![self] = set_parity(@, parity)]
    /\ calls' = calls + 1
    /\ trace' = Append(trace, "set_parity")
    /\ UNCHANGED <<ucsra, ucsrb, ubrrl, ubrrh, udr, prr0, prr1, ddr, sreg, op, pc, args,
                   num, ubrr, lastread, entry, isr_at, ret, hist, periph>>

\* set_stop(stop)
Part_set_stop ==
    /\ op = "set_frame" /\ ~Applied("set_stop")
    /\ ucsrc' = [ucsrc EXCEPT ![self] = set_stop(@, stop)]
    /\ calls' = calls + 1
    /\ trace' = Append(trace, "set_stop")
    /\ UNCHANGED <<ucsra, ucsrb, ubrrl, ubrrh, udr, prr0, prr1, ddr, sreg, op, pc, args,
                   num, ubrr, lastread, entry, isr_at, ret, hist, periph>>

NextParts ==
    \/ Part_set_power
    \/ Part_set_size
    \/ Part_set_parity
    \/ Part_set_stop

SpecParts == PartsInit /\ [][NextParts]_vars

(***************************************************************************)
(* One initialize call on a unit on which nothing is in flight: the        *)
(* hardware changes no status flag and no handler touches the unit.  The   *)
(* status register holds its reset value (UDRE set, TXC and RXC clear) or  *)
(* shows a completed transmission (TXC set as well).  The call's steps are *)
(* taken as long as one is possible.                                       *)
(***************************************************************************)
QuietStatus == {Image("reset").ucsra, Image("reset").ucsra + 64}

QuietInit ==
    /\ \E i \in Images, s \in QuietStatus :
          /\ ucsra = [a \in Addr |-> s]
          /\ ucsrb = [a \in Addr |-> Image(i).ucsrb]
          /\ ucsrc = [a \in Addr |-> Image(i).ucsrc]
          /\ ubrrl = [a \in Addr |-> Image(i).ubrrl]
          /\ ubrrh = [a \in Addr |-> Image(i).ubrrh]
          /\ udr   = [a \in Addr |-> Image(i).udr]
          /\ prr0 = Image(i).prr0
          /\ prr1 = Image(i).prr1
          /\ ddr = [p \in PortName |-> Image(i).ddr]
    /\ sreg \in {0, 128}
    /\ op = "none"
    /\ pc = "idle"
    /\ self = new("usart0")
    /\ mode = "norm_async"
    /\ baud = 9600
    /\ stop = "one"
    /\ size = "five"
    /\ parity = "no"
    /\ polarity = "output_rise"
    /\ num = "none"
    /\ ubrr = u32(0)
    /\ lastread = 0
    /\ entry = Snapshot
    /\ trace = <<>>
    /\ isr_at = "none"
    /\ ret = "none"
    /\ calls = 0
    /\ hist = [a \in Addr |-> [last |-> "none", sync |-> "none"]]
    /\ PeriphUnused

Quiet_Call_initialize ==
    CallInitialize(UsartNum, UsartModes, {9600}, UsartStop, {"five", "eight"}, {"no", "odd"})

NextQuiet ==
    \/ Quiet_Call_initialize
    \/ Step

SpecQuiet == QuietInit /\ [][NextQuiet]_vars /\ WF_vars(Step)

(***************************************************************************)
(* initialize called again and again on one unit with different arguments, *)
(* from the reset values, the unit showing a completed transmission and    *)
(* nothing in flight.                                                      *)
(***************************************************************************)
AgainInit ==
    /\ QuietInit
    /\ prr0 = Image("reset").prr0
    /\ ubrrl = [a \in Addr |-> Image("reset").ubrrl]
    /\ ucsra = [a \in Addr |-> Image("reset").ucsra + 64]

Again_Call_initialize ==
    /\ calls < MaxCalls
    /\ CallInitialize({"usart0"}, UsartModes, {200, 9600}, UsartStop,
                      {"five", "nine"}, {"no", "odd"})

NextAgain ==
    \/ Again_Call_initialize
    \/ Return
    \/ Step

SpecAgain == AgainInit /\ [][NextAgain]_vars

(***************************************************************************)
(* Sequences of the three public operations mode_select, set_polarity and  *)
(* initialize on one unit, from the reset values, nothing in flight.       *)
(***************************************************************************)
MaxOps == 3

Ops_Call_initialize ==
    /\ calls < MaxOps
    /\ CallInitialize({"usart0"}, UsartModes, {9600}, {"one"}, {"eight"}, {"no"})

Ops_Call_mode_select ==
    /\ calls < MaxOps
    /\ CallModeSelect({"usart0"}, UsartModes)

Ops_Call_set_polarity ==
    /\ calls < MaxOps
    /\ CallSetPolarity({"usart0"}, UsartPolarity)

NextOps ==
    \/ Ops_Call_initialize
    \/ Ops_Call_mode_select
    \/ Ops_Call_set_polarity
    \/ Return
    \/ Step
    \/ GetMode
    \/ SetPolarity

SpecOps == AgainInit /\ [][NextOps]_vars

(***************************************************************************)
(* Watchdog of the ATmega328P (atmega328p/hal/watchdog.rs).                *)
(***************************************************************************)
\* Watchdog::new: the address the register block is placed at.
Watchdog_new == 85

\* struct Watchdog has the default representation: the order of its fields
\* mcusr (one byte), _pad (ten bytes) and wdtcsr (one byte) is the
\* compiler's choice.  The offsets of mcusr and wdtcsr in each of the six
\* orders; [mcusr |-> 10, wdtcsr |-> 11] is what rustc lays out, and
\* [mcusr |-> 0, wdtcsr |-> 11] is the order of declaration.
WatchdogLayouts ==
    { [mcusr |-> 0,  wdtcsr |-> 11], [mcusr |-> 0,  wdtcsr |-> 1],
      [mcusr |-> 10, wdtcsr |-> 11], [mcusr |-> 11, wdtcsr |-> 10],
      [mcusr |-> 1,  wdtcsr |-> 0],  [mcusr |-> 11, wdtcsr |-> 0] }

Watchdog_mcusr(base, layout) == base + layout.mcusr
Watchdog_wdtcsr(base, layout) == base + layout.wdtcsr

\* The status register of the ATmega328P, which holds the global interrupt
\* flag in bit 7, is the byte at data address 0x5F.
SREG == 95

\* The data-space addresses the watchdog model keeps beside SREG: MCUSR at
\* 0x54 and every byte a field of the struct can be placed at.
Io328 ==
    ({84} \cup { Watchdog_mcusr(Watchdog_new, l) : l \in WatchdogLayouts }
          \cup { Watchdog_wdtcsr(Watchdog_new, l) : l \in WatchdogLayouts })
        \ {SREG}

\* core::ptr::read_volatile and write_volatile on the data space d, a record
\* of the bytes kept (io) and the status register (sreg).
read_volatile(d, a) == IF a = SREG THEN d.sreg ELSE d.io[a]
write_volatile(d, a, v) ==
    IF a = SREG THEN [d EXCEPT !.sreg = v] ELSE [d EXCEPT !.io[a] = v]

\* reset_watchdog: the mcusr field read, and-ed with 0x7, written back.
reset_watchdog(d, base, layout) ==
    write_volatile(d, Watchdog_mcusr(base, layout),
                   read_volatile(d, Watchdog_mcusr(base, layout)) % 8)

\* disable: ctrl_wdtcsr |= 0x18.
wdtcsr_change_enable(v) == set_bit(set_bit(v, 3, TRUE), 4, TRUE)

\* Everything of the USART engine at rest while another module runs.
\* The USART engine at rest, but for PRR1.
UsartIdle ==
    /\ ucsra = [a \in Addr |-> Image("reset").ucsra]
    /\ ucsrb = [a \in Addr |-> Image("reset").ucsrb]
    /\ ucsrc = [a \in Addr |-> Image("reset").ucsrc]
    /\ ubrrl = [a \in Addr |-> Image("reset").ubrrl]
    /\ ubrrh = [a \in Addr |-> Image("reset").ubrrh]
    /\ udr   = [a \in Addr |-> Image("reset").udr]
    /\ ddr = [p \in PortName |-> Image("reset").ddr]
    /\ self = new("usart0")
    /\ mode = "norm_async"
    /\ baud = 9600
    /\ stop = "one"
    /\ size = "five"
    /\ parity = "no"
    /\ polarity = "output_rise"
    /\ num = "none"
    /\ ubrr = u32(0)
    /\ lastread = 0
    /\ calls = 0
    /\ hist = [a \in Addr |-> [last |-> "none", sync |-> "none"]]

UsartUnused == UsartIdle /\ prr1 = Image("reset").prr1

usart == <<ucsra, ucsrb, ucsrc, ubrrl, ubrrh, udr, prr1, ddr, args, num, ubrr,
           lastread, calls, hist>>

\* Register contents the watchdog is started from; the status register has
\* the interrupt flag and the arithmetic flags set or clear.

WatchdogInit ==
    /\ UsartUnused
    /\ prr0 = Image("reset").prr0
    /\ io328 \in [Io328 -> {0, 8, 165, 255}]
    /\ sreg \in {0, 31, 128, 159}
    /\ mpu = [r \in {} |-> 0]
    /\ adc = [r \in {} |-> 0]
    /\ arg \in WatchdogLayouts
    /\ local = 0
    /\ op = "none"
    /\ pc = "idle"
    /\ entry = [io328 |-> io328, sreg |-> sreg]
    /\ trace = <<>>
    /\ isr_at = "none"
    /\ ret = "none"

\* main: Watchdog::new().disable().
Call_disable ==
    /\ pc = "idle"
    /\ op' = "disable"
    /\ pc' = "wd_cli"
    /\ entry' = [io328 |-> io328, sreg |-> sreg]
    /\ trace' = <<>>
    /\ isr_at' = "none"
    /\ UNCHANGED <<usart, prr0, sreg, ret, periph>>

\* interrupt::Interrupt::disable.
WdInterruptDisable ==
    /\ pc = "wd_cli"
    /\ sreg' = GlobalInterrupts_disable(sreg)
    /\ pc' = "wd_reset"
    /\ trace' = Append(trace, "interrupt_disable")
    /\ UNCHANGED <<usart, prr0, op, entry, isr_at, ret, periph>>

\* Watchdog::reset_watchdog(&mut Watchdog::new()).
WdResetWatchdog ==
    /\ pc = "wd_reset"
    /\ LET d == reset_watchdog([io |-> io328, sreg |-> sreg], Watchdog_new, arg)
       IN  io328' = d.io /\ sreg' = d.sreg
    /\ pc' = "wd_read"
    /\ trace' = Append(trace, "reset_watchdog")
    /\ UNCHANGED <<usart, prr0, op, entry, isr_at, ret, mpu, adc, arg, local>>

\* let mut ctrl_wdtcsr = read_volatile(&self.wdtcsr).
WdRead ==
    /\ pc = "wd_read"
    /\ local' = read_volatile([io |-> io328, sreg |-> sreg],
                               Watchdog_wdtcsr(Watchdog_new, arg))
    /\ pc' = "wd_write1"
    /\ UNCHANGED <<usart, prr0, sreg, op, entry, trace, isr_at, ret, io328, mpu, adc, arg>>

\* ctrl_wdtcsr |= 0x18; write_volatile(&mut self.wdtcsr, ctrl_wdtcsr).
WdWrite1 ==
    /\ pc = "wd_write1"
    /\ LET d == write_volatile([io |-> io328, sreg |-> sreg],
                                Watchdog_wdtcsr(Watchdog_new, arg),
                                wdtcsr_change_enable(local))
       IN  io328' = d.io /\ sreg' = d.sreg
    /\ pc' = "wd_write2"
    /\ trace' = Append(trace, "wdtcsr_change_enable")
    /\ UNCHANGED <<usart, prr0, op, entry, isr_at, ret, mpu, adc, arg, local>>

\* write_volatile(&mut self.wdtcsr, 0x00).
WdWrite2 ==
    /\ pc = "wd_write2"
    /\ LET d == write_volatile([io |-> io328, sreg |-> sreg],
                                Watchdog_wdtcsr(Watchdog_new, arg), 0)
       IN  io328' = d.io /\ sreg' = d.sreg
    /\ pc' = "wd_sei"
    /\ trace' = Append(trace, "wdtcsr_zero")
    /\ UNCHANGED <<usart, prr0, op, entry, isr_at, ret, mpu, adc, arg, local>>

\* interrupt::Interrupt::enable, and the return of disable.
WdInterruptEnable ==
    /\ pc = "wd_sei"
    /\ sreg' = GlobalInterrupts_enable(sreg)
    /\ pc' = "done"
    /\ trace' = Append(trace, "interrupt_enable")
    /\ UNCHANGED <<usart, prr0, op, entry, isr_at, ret, periph>>

\* An interrupt handler of the ATmega328P runs while the flag allows it.
WdIsr ==
    /\ IntEnabled(sreg)
    /\ op = "disable"
    /\ pc \notin {"idle", "done"}
    /\ isr_at' = pc
    /\ UNCHANGED <<usart, prr0, sreg, op, pc, entry, trace, ret, periph>>

NextWatchdog ==
    \/ Call_disable
    \/ WdInterruptDisable
    \/ WdResetWatchdog
    \/ WdRead
    \/ WdWrite1
    \/ WdWrite2
    \/ WdInterruptEnable
    \/ WdIsr

SpecWatchdog == WatchdogInit /\ [][NextWatchdog]_vars

(***************************************************************************)
(* MPU6050 sensor (sensors/mpu6050.rs).  A register of the sensor is read  *)
(* and written through the I2C driver, with the bytes of a transfer kept   *)
(* in a FixedSliceVec; the model keeps the register file and the vector.   *)
(***************************************************************************)
MPU6050_REG_CONFIG == 26
MPU6050_REG_GYRO_CONFIG == 27
MPU6050_REG_ACCEL_CONFIG == 28
MPU6050_REG_INT_PIN_CFG == 55
MPU6050_REG_INT_ENABLE == 56
MPU6050_REG_MOT_DETECT_CTRL == 105
MPU6050_REG_USER_CTRL == 106
MPU6050_REG_PWR_MGMT_1 == 107

MpuRegs == {MPU6050_REG_CONFIG, MPU6050_REG_GYRO_CONFIG, MPU6050_REG_ACCEL_CONFIG,
            MPU6050_REG_INT_PIN_CFG, MPU6050_REG_INT_ENABLE, MPU6050_REG_MOT_DETECT_CTRL,
            MPU6050_REG_USER_CTRL, MPU6050_REG_PWR_MGMT_1}

MPUClockSourceT == {"MPU6050ClockInternal8MHZ", "MPU6050ClockPllGyrox", "MPU6050ClockPllGyroy",
                    "MPU6050ClockPllGyroz", "MPU6050ClockExternal32MHZ",
                    "MPU6050ClockExternal19MHZ", "MPU6050ClockKeepReset"}
MPUdpsT == {"MPU6050Scale2000DPS", "MPU6050Scale1000DPS", "MPU6050Scale500DPS",
            "MPU6050Scale250DPS"}
MPURangeT == {"MPU6050Range2G", "MPU6050Range4G", "MPU6050Range8G", "MPU6050Range16G"}
MPUOnDelayT == {"MPU6050Delay3MS", "MPU6050Delay2MS", "MPU6050Delay1MS", "MPU6050NoDelay"}
MPUdhpfT == {"MPU6050dhpfReset", "MPU6050dhpf5HZ", "MPU6050dhpf2_5HZ", "MPU6050dhpf1_25HZ",
             "MPU6050dhpf0_63HZ", "MPU6050dhpfHold"}
MPUdlpfT == {"MPU6050dlpf6", "MPU6050dlpf5", "MPU6050dlpf4", "MPU6050dlpf3", "MPU6050dlpf2",
             "MPU6050dlpf1", "MPU6050dlpf0"}

\* The u8 operators & and | of the source, bit by bit.
and8(a, b) ==
    LET t(i) == IF get_bit(a, i) /\ get_bit(b, i) THEN 2 ^ i ELSE 0
    IN  t(0) + t(1) + t(2) + t(3) + t(4) + t(5) + t(6) + t(7)

or8(a, b) ==
    LET t(i) == IF get_bit(a, i) \/ get_bit(b, i) THEN 2 ^ i ELSE 0
    IN  t(0) + t(1) + t(2) + t(3) + t(4) + t(5) + t(6) + t(7)

shl8(a, n) == (a * 2 ^ n) % 256
shr8(a, n) == a \div (2 ^ n)

\* FixedSliceVec::new(storage): an empty vector over the storage slice; it
\* holds as many items as the slice is long and never grows.
FixedSliceVec_new(storage) == [capacity |-> Len(storage), items |-> <<>>, panic |-> FALSE]

\* FixedSliceVec::push: the value appended when there is space left; a panic
\* when there is none.
push(vec, value) ==
    IF vec.panic \/ Len(vec.items) >= vec.capacity
    THEN [vec EXCEPT !.panic = TRUE]
    ELSE [vec EXCEPT !.items = Append(@, value)]

\* Twi::read_from_slave: one read transfer; the byte of the register named
\* by the first item of data is appended to data.
read_from_slave(m, data) == IF data.panic THEN data ELSE push(data, m[data.items[1]])

\* Twi::write_to_slave: one write transfer; the register named by the first
\* item of data takes the second.
write_to_slave(m, data) == [m EXCEPT ![data.items[1]] = data.items[2]]

\* readregister: the register number is pushed on a vector made over the
\* empty slice &mut [], the driver reads from the sensor into the vector,
\* and vec1[1], the item after the register number, is returned.  A push
\* that finds no space panics, and so does the function.
readregister(m, reg) ==
    LET vec1 == push(FixedSliceVec_new(<<>>), reg)
        read == read_from_slave(m, vec1)
    IN  IF read.panic
        THEN [panic |-> TRUE]
        ELSE [panic |-> FALSE, value |-> read.items[2]]

\* writeregister: the register number and the value are pushed on a vector
\* made over the empty slice &mut [], and the driver writes the vector to
\* the sensor.  A push that finds no space panics before anything is
\* written.
writeregister(m, reg, value) ==
    LET vec2 == push(push(FixedSliceVec_new(<<>>), reg), value)
    IN  IF vec2.panic
        THEN [panic |-> TRUE, m |-> m]
        ELSE [panic |-> FALSE, m |-> write_to_slave(m, vec2)]

writeregister_bit(m, reg, pos, state) ==
    LET r     == readregister(m, reg)
        value == IF state THEN or8(r.value, shl8(1, pos))
                          ELSE and8(r.value, 255 - shl8(1, pos))
    IN  IF r.panic THEN [panic |-> TRUE, m |-> m] ELSE writeregister(m, reg, value)

set_dlpf_mode(m, dlpf) ==
    LET r     == readregister(m, MPU6050_REG_CONFIG)
        value == and8(r.value, 248)
        code  == CASE dlpf = "MPU6050dlpf6" -> 6
                   [] dlpf = "MPU6050dlpf5" -> 5
                   [] dlpf = "MPU6050dlpf4" -> 4
                   [] dlpf = "MPU6050dlpf3" -> 3
                   [] dlpf = "MPU6050dlpf2" -> 2
                   [] dlpf = "MPU6050dlpf1" -> 1
                   [] dlpf = "MPU6050dlpf0" -> 0
    IN  IF r.panic THEN [panic |-> TRUE, m |-> m]
        ELSE writeregister(m, MPU6050_REG_CONFIG, or8(value, code))

set_dhpf_mode(m, dhpf) ==
    LET r     == readregister(m, MPU6050_REG_CONFIG)
        value == and8(r.value, 252)
        code  == CASE dhpf = "MPU6050dhpfReset" -> 0
                   [] dhpf = "MPU6050dhpf5HZ" -> 1
                   [] dhpf = "MPU6050dhpf2_5HZ" -> 2
                   [] dhpf = "MPU6050dhpf1_25HZ" -> 3
                   [] dhpf = "MPU6050dhpf0_63HZ" -> 4
                   [] dhpf = "MPU6050dhpfHold" -> 5
    IN  IF r.panic THEN [panic |-> TRUE, m |-> m]
        ELSE writeregister(m, MPU6050_REG_CONFIG, or8(value, code))

set_scale(m, scale) ==
    LET r     == readregister(m, MPU6050_REG_GYRO_CONFIG)
        value == and8(r.value, 231)
        code  == CASE scale = "MPU6050Scale2000DPS" -> 3
                   [] scale = "MPU6050Scale1000DPS" -> 2
                   [] scale = "MPU6050Scale500DPS" -> 1
                   [] scale = "MPU6050Scale250DPS" -> 0
    IN  IF r.panic THEN [panic |-> TRUE, m |-> m]
        ELSE writeregister(m, MPU6050_REG_GYRO_CONFIG, or8(value, shl8(code, 3)))

get_scale(m) ==
    LET r     == readregister(m, MPU6050_REG_GYRO_CONFIG)
        value == shr8(and8(r.value, 24), 3)
    IN  IF r.panic THEN [panic |-> TRUE]
        ELSE [panic |-> FALSE,
              ret |-> IF value = 3 THEN "MPU6050Scale2000DPS"
                      ELSE IF value = 2 THEN "MPU6050Scale1000DPS"
                      ELSE IF value = 1 THEN "MPU6050Scale500DPS"
                      ELSE "MPU6050Scale250DPS"]

set_range(m, range) ==
    LET r     == readregister(m, MPU6050_REG_ACCEL_CONFIG)
        value == and8(r.value, 231)
        code  == CASE range = "MPU6050Range2G" -> 0
                   [] range = "MPU6050Range4G" -> 1
                   [] range = "MPU6050Range8G" -> 2
                   [] range = "MPU6050Range16G" -> 3
    IN  IF r.panic THEN [panic |-> TRUE, m |-> m]
        ELSE writeregister(m, MPU6050_REG_ACCEL_CONFIG, or8(value, shl8(code, 3)))

get_range(m) ==
    LET r     == readregister(m, MPU6050_REG_ACCEL_CONFIG)
        value == shr8(and8(r.value, 24), 3)
    IN  IF r.panic THEN [panic |-> TRUE]
        ELSE [panic |-> FALSE,
              ret |-> IF value = 3 THEN "MPU6050Range16G"
                      ELSE IF value = 2 THEN "MPU6050Range8G"
                      ELSE IF value = 1 THEN "MPU6050Range4G"
                      ELSE "MPU6050Range2G"]

set_clock_source(m, source) ==
    LET r     == readregister(m, MPU6050_REG_PWR_MGMT_1)
        value == and8(r.value, 248)
        code  == CASE source = "MPU6050ClockInternal8MHZ" -> 0
                   [] source = "MPU6050ClockPllGyrox" -> 1
                   [] source = "MPU6050ClockPllGyroy" -> 2
                   [] source = "MPU6050ClockPllGyroz" -> 3
                   [] source = "MPU6050ClockExternal32MHZ" -> 4
                   [] source = "MPU6050ClockExternal19MHZ" -> 5
                   [] source = "MPU6050ClockKeepReset" -> 7
    IN  IF r.panic THEN [panic |-> TRUE, m |-> m]
        ELSE writeregister(m, MPU6050_REG_PWR_MGMT_1, or8(value, code))

get_clock_source(m) ==
    LET r     == readregister(m, MPU6050_REG_PWR_MGMT_1)
        value == and8(r.value, 7)
    IN  IF r.panic THEN [panic |-> TRUE]
        ELSE [panic |-> FALSE,
              ret |-> IF value = 0 THEN "MPU6050ClockInternal8MHZ"
                      ELSE IF value = 1 THEN "MPU6050ClockPllGyrox"
                      ELSE IF value = 2 THEN "MPU6050ClockPllGyroy"
                      ELSE IF value = 3 THEN "MPU6050ClockPllGyroz"
                      ELSE IF value = 4 THEN "MPU6050ClockExternal32MHZ"
                      ELSE IF value = 5 THEN "MPU6050ClockExternal19MHZ"
                      ELSE "MPU6050ClockKeepReset"]

set_int_free_fall_enabled(m, state) == writeregister_bit(m, MPU6050_REG_INT_ENABLE, 7, state)
get_int_free_fall_enabled(m) ==
    LET r == readregister(m, MPU6050_REG_INT_ENABLE)
    IN  IF r.panic THEN [panic |-> TRUE]
        ELSE [panic |-> FALSE, ret |-> get_bit(r.value, 6)]

set_accel_power_on_delay(m, delay) ==
    LET r     == readregister(m, MPU6050_REG_MOT_DETECT_CTRL)
        value == and8(r.value, 207)
        code  == CASE delay = "MPU6050Delay3MS" -> 3
                   [] delay = "MPU6050Delay2MS" -> 2
                   [] delay = "MPU6050Delay1MS" -> 1
                   [] delay = "MPU6050NoDelay" -> 0
    IN  IF r.panic THEN [panic |-> TRUE, m |-> m]
        ELSE writeregister(m, MPU6050_REG_MOT_DETECT_CTRL, or8(value, code))

get_accel_power_on_delay(m) ==
    LET r     == readregister(m, MPU6050_REG_MOT_DETECT_CTRL)
        value == and8(r.value, 48)
    IN  IF r.panic THEN [panic |-> TRUE]
        ELSE [panic |-> FALSE,
              ret |-> IF value = 3 THEN "MPU6050Delay3MS"
                      ELSE IF value = 2 THEN "MPU6050Delay2MS"
                      ELSE IF value = 1 THEN "MPU6050Delay1MS"
                      ELSE "MPU6050NoDelay"]

set_sleep_enabled(m, state) == writeregister_bit(m, MPU6050_REG_PWR_MGMT_1, 6, state)
get_sleep_enabled(m) ==
    LET r == readregister(m, MPU6050_REG_PWR_MGMT_1)
    IN  IF r.panic THEN [panic |-> TRUE]
        ELSE [panic |-> FALSE, ret |-> get_bit(r.value, 6)]
get_int_zero_motion_enabled(m) ==
    LET r == readregister(m, MPU6050_REG_INT_ENABLE)
    IN  IF r.panic THEN [panic |-> TRUE]
        ELSE [panic |-> FALSE, ret |-> get_bit(r.value, 5)]
set_int_zero_motion_enabled(m, state) == writeregister_bit(m, MPU6050_REG_INT_ENABLE, 5, state)
get_int_motion_enabled(m) ==
    LET r == readregister(m, MPU6050_REG_INT_ENABLE)
    IN  IF r.panic THEN [panic |-> TRUE]
        ELSE [panic |-> FALSE, ret |-> get_bit(r.value, 6)]
set_int_motion_enabled(m, state) == writeregister_bit(m, MPU6050_REG_INT_ENABLE, 6, state)
set_i2c_master_mode_enabled(m, state) == writeregister_bit(m, MPU6050_REG_USER_CTRL, 5, state)
get_i2c_master_mode_enabled(m) ==
    LET r == readregister(m, MPU6050_REG_USER_CTRL)
    IN  IF r.panic THEN [panic |-> TRUE]
        ELSE [panic |-> FALSE, ret |-> get_bit(r.value, 5)]
set_i2c_byepass_enabled(m, state) == writeregister_bit(m, MPU6050_REG_INT_PIN_CFG, 1, state)
get_i2c_byepass_enabled(m) ==
    LET r == readregister(m, MPU6050_REG_INT_PIN_CFG)
    IN  IF r.panic THEN [panic |-> TRUE]
        ELSE [panic |-> FALSE, ret |-> get_bit(r.value, 1)]

\* begin: the clock source set to the X gyroscope PLL, the range and the
\* scale set, sleep mode left, in this order; a setter that panics ends
\* begin there.  begin returns true when all four returned.
begin(m, scale, range) ==
    LET a == set_clock_source(m, "MPU6050ClockPllGyrox")
        b == IF a.panic THEN a ELSE set_range(a.m, range)
        c == IF b.panic THEN b ELSE set_scale(b.m, scale)
        d == IF c.panic THEN c ELSE set_sleep_enabled(c.m, FALSE)
    IN  IF d.panic THEN d ELSE [panic |-> FALSE, m |-> d.m, ret |-> TRUE]

\* Register contents the sensor is started from: every register holds b,
\* any byte.  No call is running: no transfer is pending and no byte has
\* been read.
MpuInit ==
    /\ UsartUnused
    /\ prr0 = Image("reset").prr0
    /\ sreg = 0
    /\ io328 = [a \in {} |-> 0]
    /\ \E b \in Bytes : mpu = [r \in MpuRegs |-> b]
    /\ adc = [r \in {} |-> 0]
    /\ arg = "none"
    /\ local = [todo |-> <<>>, value |-> 0]
    /\ op = "none"
    /\ pc = "idle"
    /\ entry = "none"
    /\ trace = <<>>
    /\ isr_at = "none"
    /\ ret = "none"

\* The public functions by name: the register fn addresses, whether it only
\* reads, and what the function makes of register file m.
MpuFn(fn, a, m) ==
    LET setter(reg, res) == [reg |-> reg, getter |-> FALSE, res |-> res]
        getter(reg, res) == [reg |-> reg, getter |-> TRUE, res |-> res]
    IN  CASE fn = "set_dlpf_mode" -> setter(MPU6050_REG_CONFIG, set_dlpf_mode(m, a))
          [] fn = "set_dhpf_mode" -> setter(MPU6050_REG_CONFIG, set_dhpf_mode(m, a))
          [] fn = "set_scale" -> setter(MPU6050_REG_GYRO_CONFIG, set_scale(m, a))
          [] fn = "get_scale" -> getter(MPU6050_REG_GYRO_CONFIG, get_scale(m))
          [] fn = "set_range" -> setter(MPU6050_REG_ACCEL_CONFIG, set_range(m, a))
          [] fn = "get_range" -> getter(MPU6050_REG_ACCEL_CONFIG, get_range(m))
          [] fn = "set_clock_source" -> setter(MPU6050_REG_PWR_MGMT_1, set_clock_source(m, a))
          [] fn = "get_clock_source" -> getter(MPU6050_REG_PWR_MGMT_1, get_clock_source(m))
          [] fn = "set_accel_power_on_delay"
                -> setter(MPU6050_REG_MOT_DETECT_CTRL, set_accel_power_on_delay(m, a))
          [] fn = "get_accel_power_on_delay"
                -> getter(MPU6050_REG_MOT_DETECT_CTRL, get_accel_power_on_delay(m))
          [] fn = "set_int_free_fall_enabled"
                -> setter(MPU6050_REG_INT_ENABLE, set_int_free_fall_enabled(m, a))
          [] fn = "get_int_free_fall_enabled"
                -> getter(MPU6050_REG_INT_ENABLE, get_int_free_fall_enabled(m))
          [] fn = "set_int_motion_enabled"
                -> setter(MPU6050_REG_INT_ENABLE, set_int_motion_enabled(m, a))
          [] fn = "get_int_motion_enabled"
                -> getter(MPU6050_REG_INT_ENABLE, get_int_motion_enabled(m))
          [] fn = "set_int_zero_motion_enabled"
                -> setter(MPU6050_REG_INT_ENABLE, set_int_zero_motion_enabled(m, a))
          [] fn = "get_int_zero_motion_enabled"
                -> getter(MPU6050_REG_INT_ENABLE, get_int_zero_motion_enabled(m))
          [] fn = "set_sleep_enabled" -> setter(MPU6050_REG_PWR_MGMT_1, set_sleep_enabled(m, a))
          [] fn = "get_sleep_enabled" -> getter(MPU6050_REG_PWR_MGMT_1, get_sleep_enabled(m))
          [] fn = "set_i2c_master_mode_enabled"
                -> setter(MPU6050_REG_USER_CTRL, set_i2c_master_mode_enabled(m, a))
          [] fn = "get_i2c_master_mode_enabled"
                -> getter(MPU6050_REG_USER_CTRL, get_i2c_master_mode_enabled(m))
          [] fn = "set_i2c_byepass_enabled"
                -> setter(MPU6050_REG_INT_PIN_CFG, set_i2c_byepass_enabled(m, a))
          [] fn = "get_i2c_byepass_enabled"
                -> getter(MPU6050_REG_INT_PIN_CFG, get_i2c_byepass_enabled(m))
          [] fn = "begin" -> setter(MPU6050_REG_PWR_MGMT_1, begin(m, a[1], a[2]))

\* A public function is called with argument a: nothing is pushed and
\* nothing transferred yet.  The register accesses the call is to make are
\* noted in order: one for a setter or a getter, the four setters of its
\* body for begin(scale, range).  begin starts with delay_ms(5), the others
\* with readregister.
MpuCall(fn, a) ==
    /\ pc = "idle"
    /\ op' = fn
    /\ arg' = a
    /\ entry' = mpu
    /\ local' = [todo  |-> IF fn = "begin"
                           THEN << <<"set_clock_source", "MPU6050ClockPllGyrox">>,
                                   <<"set_range", a[2]>>, <<"set_scale", a[1]>>,
                                   <<"set_sleep_enabled", FALSE>> >>
                           ELSE << <<fn, a>> >>,
                 value |-> 0]
    /\ pc' = IF fn = "begin" THEN "mpu_delay" ELSE "mpu_read"
    /\ ret' = "none"
    /\ UNCHANGED <<usart, prr0, sreg, trace, isr_at, io328, mpu, adc>>

\* begin: delay_ms(5) has passed.
MpuDelay ==
    /\ pc = "mpu_delay"
    /\ pc' = "mpu_read"
    /\ UNCHANGED <<usart, prr0, sreg, op, entry, trace, isr_at, ret, periph>>

\* One register access of the call that is running: readregister at
\* "mpu_read", writeregister at "mpu_write".  An access whose push panics
\* ends the program there: nothing is transferred, no register changes and
\* the call does not return (the panic handler of the firmware loops for
\* ever).  Otherwise readregister is one read transfer, after which a
\* getter returns what it makes of the byte and a setter goes on to
\* writeregister; writeregister is one write transfer of what the setter
\* makes of the register file with the byte read, and after the last
\* access the call returns: () for a setter, true for begin.
MpuTransfer ==
    /\ pc \in {"mpu_read", "mpu_write"}
    /\ \E f \in {MpuFn(Head(local.todo)[1], Head(local.todo)[2], mpu)} :
          IF pc = "mpu_read"
          THEN \E read \in {readregister(mpu, f.reg)} :
                  IF read.panic
                  THEN /\ pc' = "panic"
                       /\ UNCHANGED <<mpu, local, ret, trace>>
                  ELSE IF f.getter
                  THEN /\ local' = [todo |-> <<>>, value |-> 0]
                       /\ ret' = f.res.ret
                       /\ pc' = "idle"
                       /\ trace' = Append(trace, [fn |-> op, arg |-> arg, ret |-> f.res.ret,
                                                  before |-> entry, after |-> mpu])
                       /\ mpu' = mpu
                  ELSE /\ local' = [local EXCEPT !.value = read.value]
                       /\ pc' = "mpu_write"
                       /\ UNCHANGED <<mpu, ret, trace>>
          ELSE \E write \in {writeregister(
                                 mpu, f.reg,
                                 MpuFn(Head(local.todo)[1], Head(local.todo)[2],
                                       [mpu EXCEPT ![f.reg] = local.value]).res.m[f.reg])} :
                  IF write.panic
                  THEN /\ pc' = "panic"
                       /\ UNCHANGED <<mpu, local, ret, trace>>
                  ELSE /\ mpu' = write.m
                       /\ IF Len(local.todo) = 1
                          THEN /\ local' = [todo |-> <<>>, value |-> 0]
                               /\ ret' = IF op = "begin" THEN TRUE ELSE "unit"
                               /\ pc' = "idle"
                               /\ trace' = Append(trace,
                                                  [fn |-> op, arg |-> arg,
                                                   ret |-> IF op = "begin" THEN TRUE ELSE "unit",
                                                   before |-> entry, after |-> write.m])
                          ELSE /\ local' = [local EXCEPT !.todo = Tail(@)]
                               /\ pc' = "mpu_read"
                               /\ UNCHANGED <<ret, trace>>
    /\ UNCHANGED <<usart, prr0, sreg, op, entry, isr_at, io328, adc, arg>>

\* The calls of the public setters, getters and begin, and the accesses of
\* the call that is running.  The code does not disable interrupts around a
\* call: a handler that leaves the sensor alone may run between any two
\* steps, a stuttering step of the behaviour.
NextMpu ==
    \/ \E v \in MPUdlpfT : MpuCall("set_dlpf_mode", v)
    \/ \E v \in MPUdhpfT : MpuCall("set_dhpf_mode", v)
    \/ \E v \in MPUdpsT : MpuCall("set_scale", v)
    \/ MpuCall("get_scale", "none")
    \/ \E v \in MPURangeT : MpuCall("set_range", v)
    \/ MpuCall("get_range", "none")
    \/ \E v \in MPUClockSourceT : MpuCall("set_clock_source", v)
    \/ MpuCall("get_clock_source", "none")
    \/ \E v \in MPUOnDelayT : MpuCall("set_accel_power_on_delay", v)
    \/ MpuCall("get_accel_power_on_delay", "none")
    \/ \E v \in BOOLEAN : MpuCall("set_int_free_fall_enabled", v)
    \/ MpuCall("get_int_free_fall_enabled", "none")
    \/ \E v \in BOOLEAN : MpuCall("set_int_motion_enabled", v)
    \/ MpuCall("get_int_motion_enabled", "none")
    \/ \E v \in BOOLEAN : MpuCall("set_int_zero_motion_enabled", v)
    \/ MpuCall("get_int_zero_motion_enabled", "none")
    \/ \E v \in BOOLEAN : MpuCall("set_sleep_enabled", v)
    \/ MpuCall("get_sleep_enabled", "none")
    \/ \E v \in BOOLEAN : MpuCall("set_i2c_master_mode_enabled", v)
    \/ MpuCall("get_i2c_master_mode_enabled", "none")
    \/ \E v \in BOOLEAN : MpuCall("set_i2c_byepass_enabled", v)
    \/ MpuCall("get_i2c_byepass_enabled", "none")
    \/ \E s \in MPUdpsT, r \in MPURangeT : MpuCall("begin", <<s, r>>)
    \/ MpuDelay
    \/ MpuTransfer

SpecMpu == MpuInit /\ [][NextMpu]_vars

(***************************************************************************)
(* Analog input of the ATmega2560 (atmega2560p/hal/analog.rs).             *)
(***************************************************************************)
\* Analog::power_adc_enable: prr0 | 1.
power_adc_enable(p) == or8(p, 1)

\* Analog::power_adc_disable: prr0 & 254.
power_adc_disable(p) == and8(p, 254)

\* analog_reference: bits 6..7 of ADMUX by reference type.
RefType == {"DEFAULT", "INTERNAL1V1", "INTERNAL2V56", "EXTERNAL"}

analog_reference(v, reftype) ==
    CASE reftype = "DEFAULT" -> set_bits(v, 6, 8, 1)
      [] reftype = "INTERNAL1V1" -> set_bits(v, 6, 8, 2)
      [] reftype = "INTERNAL2V56" -> set_bits(v, 6, 8, 3)
      [] reftype = "EXTERNAL" -> set_bits(v, 6, 8, 0)

\* Analog::adc_enable, adc_con_start, adc_auto_trig, adc_disable, on ADCSRA.
adc_enable(v) == set_bit(v, 7, TRUE)
adc_con_start(v) == set_bit(v, 6, TRUE)
adc_auto_trig(v) == set_bit(v, 5, FALSE)
adc_disable(v) == set_bit(v, 7, FALSE)

\* Analog::analog_prescaler: bits 0..2 of ADCSRA by division factor.
analog_prescaler(v, factor) ==
    CASE factor = 2 -> set_bits(v, 0, 3, 0)
      [] factor = 4 -> set_bits(v, 0, 3, 2)
      [] factor = 8 -> set_bits(v, 0, 3, 3)
      [] factor = 16 -> set_bits(v, 0, 3, 4)
      [] factor = 32 -> set_bits(v, 0, 3, 5)
      [] factor = 64 -> set_bits(v, 0, 3, 6)
      [] factor = 128 -> set_bits(v, 0, 3, 7)

\* AnalogPin::read, match pin: for pin p, arm p + 1 gives the code written to
\* ADMUX bits 0..2, the DIDR register and the bit set in it, and ADCSRB bit 3.
ReadArms ==
    <<[admux |-> 0, didr |-> "didr0", bit |-> 0, mux5 |-> FALSE],
      [admux |-> 1, didr |-> "didr0", bit |-> 1, mux5 |-> FALSE],
      [admux |-> 2, didr |-> "didr0", bit |-> 2, mux5 |-> FALSE],
      [admux |-> 3, didr |-> "didr0", bit |-> 3, mux5 |-> FALSE],
      [admux |-> 4, didr |-> "didr0", bit |-> 4, mux5 |-> FALSE],
      [admux |-> 5, didr |-> "didr0", bit |-> 5, mux5 |-> FALSE],
      [admux |-> 6, didr |-> "didr0", bit |-> 6, mux5 |-> FALSE],
      [admux |-> 7, didr |-> "didr0", bit |-> 7, mux5 |-> FALSE],
      [admux |-> 0, didr |-> "didr2", bit |-> 0, mux5 |-> TRUE],
      [admux |-> 1, didr |-> "didr2", bit |-> 1, mux5 |-> TRUE],
      [admux |-> 2, didr |-> "didr2", bit |-> 2, mux5 |-> TRUE],
      [admux |-> 3, didr |-> "didr2", bit |-> 4, mux5 |-> TRUE],
      [admux |-> 4, didr |-> "didr2", bit |-> 4, mux5 |-> TRUE],
      [admux |-> 5, didr |-> "didr2", bit |-> 5, mux5 |-> TRUE],
      [admux |-> 6, didr |-> "didr2", bit |-> 6, mux5 |-> TRUE],
      [admux |-> 7, didr |-> "didr2", bit |-> 7, mux5 |-> TRUE]>>

AnalogPins == 0 .. 15

\* The three register updates of the arm of pin p.
read_select(r, p) ==
    LET arm == ReadArms[p + 1]
        r1  == [r EXCEPT !.admux = set_bits(@, 0, 3, arm.admux)]
        r2  == IF arm.didr = "didr0" THEN [r1 EXCEPT !.didr0 = set_bit(@, arm.bit, TRUE)]
                                     ELSE [r1 EXCEPT !.didr2 = set_bit(@, arm.bit, TRUE)]
    IN  [r2 EXCEPT !.adcsrb = set_bit(@, 3, arm.mux5)]

\* The u32 built from ADCL and ADCH.
read_result_fits(r) == set_bits_fits(8, 10, r.adch)
read_result(r) == set_bits(set_bits(0, 0, 8, r.adcl), 8, 10, r.adch)

\* Register contents the ADC is started from; no conversion is running and no
\* conversion has completed.  The power reduction registers are both clear,
\* or both set (PRR1 in its six implemented bits or in all eight); the
\* direction registers are clear.  The data register holds a ten-bit result,
\* right-adjusted (ADCH in 0..3) unless bit 5 of ADMUX asks for it
\* left-adjusted (ADCH holds bits 2..9 of the result).
AdcInit ==
    /\ UsartIdle
    /\ \E p \in {<<0, 0>>, <<255, 63>>, <<255, 255>>} : prr0 = p[1] /\ prr1 = p[2]
    /\ sreg = 0
    /\ io328 = [a \in {} |-> 0]
    /\ mpu = [r \in {} |-> 0]
    /\ \E sra \in {0, 15, 167}, srb \in {0, 72}, mux \in {0, 32, 199}, d \in {0, 129},
          lo \in {0, 255}, hi \in {0, 3, 4, 255} :
          /\ hi > 3 => get_bit(mux, 5)
          /\ adc = [adcl |-> lo, adch |-> hi, adcsra |-> sra, adcsrb |-> srb, admux |-> mux,
                 didr2 |-> d, didr0 |-> d, didr1 |-> d]
    /\ arg = "none"
    /\ local = [i |-> 0, adcsra |-> 0]
    /\ op = "none"
    /\ pc = "idle"
    /\ entry = [adc |-> adc, prr0 |-> prr0]
    /\ trace = <<>>
    /\ isr_at = "none"
    /\ ret = "none"

\* Analog::power_adc_enable, called between reads.
Call_power_adc_enable ==
    /\ pc = "idle"
    /\ prr0' = power_adc_enable(prr0)
    /\ op' = "power_adc_enable"
    /\ ret' = "unit"
    /\ UNCHANGED <<usart, sreg, pc, entry, trace, isr_at, periph>>

\* analog_reference, called between reads.
Call_analog_reference ==
    /\ pc = "idle"
    /\ \E t \in RefType : adc' = [adc EXCEPT !.admux = analog_reference(@, t)]
    /\ op' = "analog_reference"
    /\ ret' = "unit"
    /\ UNCHANGED <<usart, prr0, sreg, pc, entry, trace, isr_at, io328, mpu, arg, local>>

\* AnalogPin::read on pin p.
Call_read ==
    /\ pc = "idle"
    /\ \E p \in AnalogPins : arg' = p
    /\ op' = "read"
    /\ pc' = "adc_power"
    /\ entry' = [adc |-> adc, prr0 |-> prr0]
    /\ trace' = <<>>
    /\ UNCHANGED <<usart, prr0, sreg, isr_at, ret, io328, mpu, adc, local>>

ReadPower ==
    /\ pc = "adc_power"
    /\ prr0' = power_adc_disable(prr0)
    /\ pc' = "adc_enable"
    /\ trace' = Append(trace, "power_adc_disable")
    /\ UNCHANGED <<usart, sreg, op, entry, isr_at, ret, periph>>

ReadEnable ==
    /\ pc = "adc_enable"
    /\ adc' = [adc EXCEPT !.adcsra = adc_enable(@)]
    /\ pc' = "adc_prescaler"
    /\ trace' = Append(trace, "adc_enable")
    /\ UNCHANGED <<usart, prr0, sreg, op, entry, isr_at, ret, io328, mpu, arg, local>>

ReadPrescaler ==
    /\ pc = "adc_prescaler"
    /\ adc' = [adc EXCEPT !.adcsra = analog_prescaler(@, 2)]
    /\ pc' = "adc_auto_trig"
    /\ trace' = Append(trace, "analog_prescaler")
    /\ UNCHANGED <<usart, prr0, sreg, op, entry, isr_at, ret, io328, mpu, arg, local>>

ReadAutoTrig ==
    /\ pc = "adc_auto_trig"
    /\ adc' = [adc EXCEPT !.adcsra = adc_auto_trig(@)]
    /\ pc' = "adc_select"
    /\ trace' = Append(trace, "adc_auto_trig")
    /\ UNCHANGED <<usart, prr0, sreg, op, entry, isr_at, ret, io328, mpu, arg, local>>

ReadSelect ==
    /\ pc = "adc_select"
    /\ adc' = read_select(adc, arg)
    /\ pc' = "adc_start"
    /\ trace' = Append(trace, "select")
    /\ UNCHANGED <<usart, prr0, sreg, op, entry, isr_at, ret, io328, mpu, arg, local>>

ReadStart ==
    /\ pc = "adc_start"
    /\ adc' = [adc EXCEPT !.adcsra = adc_con_start(@)]
    /\ pc' = "adc_status"
    /\ trace' = Append(trace, "adc_con_start")
    /\ UNCHANGED <<usart, prr0, sreg, op, entry, isr_at, ret, io328, mpu, arg, local>>

\* let mut i: i32 = 25; let adcsra = analog.adcsra.read().
ReadStatus ==
    /\ pc = "adc_status"
    /\ local' = [i |-> 25, adcsra |-> adc.adcsra]
    /\ pc' = "adc_wait"
    /\ UNCHANGED <<usart, prr0, sreg, op, entry, trace, isr_at, ret, io328, mpu, adc, arg>>

\* One test of the while condition, on the value read before the loop.
ReadWait ==
    /\ pc = "adc_wait"
    /\ IF get_bit(local.adcsra, 4)
          THEN IF local.i # 0
                  THEN /\ local' = [local EXCEPT !.i = @ - 1]
                       /\ pc' = "adc_wait"
                  ELSE /\ pc' = "panic"
                       /\ UNCHANGED local
          ELSE /\ pc' = "adc_result"
               /\ UNCHANGED local
    /\ UNCHANGED <<usart, prr0, sreg, op, entry, trace, isr_at, ret, io328, mpu, adc, arg>>

\* The result read, adc_disable, and the return; an ADCH above 3 panics in
\* set_bits before adc_disable.
ReadResult ==
    /\ pc = "adc_result"
    /\ IF read_result_fits(adc)
       THEN /\ ret' = read_result(adc)
            /\ adc' = [adc EXCEPT !.adcsra = adc_disable(@)]
            /\ pc' = "done"
            /\ trace' = Append(trace, "adc_disable")
       ELSE /\ pc' = "panic"
            /\ UNCHANGED <<ret, adc, trace>>
    /\ UNCHANGED <<usart, prr0, sreg, op, entry, isr_at, io328, mpu, arg, local>>

\* The converter finishes a started conversion: the start bit falls and the
\* interrupt flag, bit 4 of ADCSRA, rises.
AdcComplete ==
    /\ op = "read"
    /\ pc \notin {"idle", "done", "panic"}
    /\ get_bit(adc.adcsra, 6)
    /\ adc' = [adc EXCEPT !.adcsra = set_bit(set_bit(@, 6, FALSE), 4, TRUE)]
    /\ UNCHANGED <<usart, prr0, sreg, op, pc, entry, trace, isr_at, ret, io328, mpu, arg, local>>

\* The pins DigitalPin::write is called on: the fifteen of its match arms,
\* and pin 14 for the others.
DigitalPins == (2 .. 14) \cup {44, 45, 46}

\* The port and bit behind a digital pin, the pin assignment of the board
\* (hal::pin).
DigitalPinPort(p) ==
    CASE p = 2 -> [port |-> "E", bit |-> 4]
      [] p = 3 -> [port |-> "E", bit |-> 5]
      [] p = 4 -> [port |-> "G", bit |-> 5]
      [] p = 5 -> [port |-> "E", bit |-> 3]
      [] p = 6 -> [port |-> "H", bit |-> 3]
      [] p = 7 -> [port |-> "H", bit |-> 4]
      [] p = 8 -> [port |-> "H", bit |-> 5]
      [] p = 9 -> [port |-> "H", bit |-> 6]
      [] p = 10 -> [port |-> "B", bit |-> 4]
      [] p = 11 -> [port |-> "B", bit |-> 5]
      [] p = 12 -> [port |-> "B", bit |-> 6]
      [] p = 13 -> [port |-> "B", bit |-> 7]
      [] p = 14 -> [port |-> "J", bit |-> 1]
      [] p = 44 -> [port |-> "L", bit |-> 5]
      [] p = 45 -> [port |-> "L", bit |-> 4]
      [] p = 46 -> [port |-> "L", bit |-> 3]

\* DigitalPin::write(value1) on pin p.
Call_write ==
    /\ pc = "idle"
    /\ \E p \in DigitalPins, v \in {77, 255} : arg' = [pinno |-> p, value1 |-> v]
    /\ op' = "write"
    /\ pc' = "pwm_output"
    /\ entry' = [adc |-> adc, prr0 |-> prr0]
    /\ trace' = <<>>
    /\ UNCHANGED <<usart, prr0, sreg, isr_at, ret, io328, mpu, adc, local>>

\* self.pin.output(): the direction bit of the pin is set.  Of the
\* direction registers the model keeps those of ports E, D, H and J; then
\* match pin1 takes the arm of the pin, or unreachable!().
WriteOutput ==
    /\ pc = "pwm_output"
    /\ LET pin == DigitalPinPort(arg.pinno)
       IN  ddr' = IF pin.port \in PortName
                  THEN [ddr EXCEPT ![pin.port] = set_bit(@, pin.bit, TRUE)]
                  ELSE ddr
    /\ pc' = IF arg.pinno \in {4, 13} THEN "pwm_timer"
             ELSE IF arg.pinno \in (2 .. 12) \cup {44, 45, 46} THEN "pwm_power"
             ELSE "panic"
    /\ trace' = Append(trace, "output")
    /\ UNCHANGED <<ucsra, ucsrb, ucsrc, ubrrl, ubrrh, udr, prr0, prr1, sreg, op, args, num,
                   ubrr, lastread, entry, isr_at, ret, calls, hist, periph>>

\* usart.set_power: of usart0 in the arms of pins 9 to 12, of usart1 in the
\* arms of pins 2, 3, 5 to 8 and 44 to 46.
WritePower ==
    /\ pc = "pwm_power"
    /\ LET n == IF arg.pinno \in 9 .. 12 THEN "usart0" ELSE "usart1"
       IN  /\ prr0' = set_power_prr0(prr0, n)
           /\ prr1' = set_power_prr1(prr1, n)
    /\ pc' = "pwm_timer"
    /\ trace' = Append(trace, "set_power")
    /\ UNCHANGED <<ucsra, ucsrb, ucsrc, ubrrl, ubrrh, udr, ddr, sreg, op, args, num,
                   ubrr, lastread, entry, isr_at, ret, calls, hist, periph>>

\* The control registers of the timer of the arm are updated and value1 is
\* written to its compare register, and write returns.  The model does not
\* keep the timer registers.
WriteTimer ==
    /\ pc = "pwm_timer"
    /\ pc' = "done"
    /\ ret' = "unit"
    /\ trace' = Append(trace, "timer")
    /\ UNCHANGED <<usart, prr0, sreg, op, entry, isr_at, periph>>

NextAnalog ==
    \/ Call_power_adc_enable
    \/ Call_analog_reference
    \/ Call_read
    \/ Call_write
    \/ WriteOutput
    \/ WritePower
    \/ WriteTimer
    \/ ReadPower
    \/ ReadEnable
    \/ ReadPrescaler
    \/ ReadAutoTrig
    \/ ReadSelect
    \/ ReadStart
    \/ ReadStatus
    \/ ReadWait
    \/ ReadResult
    \/ AdcComplete

SpecAnalog == AdcInit /\ [][NextAnalog]_vars

(***************************************************************************)
(* What the claims speak of, stated apart from the definitions above.      *)
(***************************************************************************)
\* The unit a handle was made for.
UnitAt(a) == CHOOSE n \in UsartNum : new(n) = a

\* The divisor of the specification's formula, with its multipliers 16, 8, 2.
SpecMultiplier(m) ==
    CASE m = "norm_async" -> 16 [] m = "dou_async" -> 8 [] m = "master_sync" -> 2

SpecDivisor(b, m) == (1000000 \div (SpecMultiplier(m) * b)) - 1

Bit(v, i) == (v \div (2 ^ i)) % 2

\* TXC (bit 6) set and RXC (bit 7) clear.
IdlePattern(v) == Bit(v, 6) = 1 /\ Bit(v, 7) = 0

\* The registers, without the two status flags that the hardware owns.
Config(r) ==
    <<[a \in Addr |-> r.ucsra[a] % 64], r.ucsrb, r.ucsrc, r.ubrrl, r.ubrrh,
      r.prr0, r.prr1, r.ddr>>

Occurrences(t, e) == Cardinality({i \in DOMAIN t : t[i] = e})

\* The positions of initialize after its first and before its last
\* configuration write.
MidConfiguration ==
    {"mode1", "mode1a", "mode2", "clock_l", "clock_h", "size_b", "size_c2",
     "size_c1", "parity", "stop"}

\* A step of the running call (not of the hardware or of a handler) that
\* writes a register.
ProgramWrite == pc' # pc /\ regs' # regs

(***************************************************************************)
(* C1: for every clocked mode and every baud whose divisor d lies in       *)
(* 0..4095, initialize on an idle unit returns normally and leaves         *)
(* UBRRL = d mod 256 and bits 0..3 of UBRRH = d div 256.                   *)
(***************************************************************************)
C1_DivisorProgrammed ==
    (op = "initialize" /\ mode # "slave_sync"
        /\ SpecDivisor(baud, mode) \in 0..4095) =>
        /\ pc # "panic"
        /\ pc = "done" =>
              /\ ubrrl[self] = SpecDivisor(baud, mode) % 256
              /\ ubrrh[self] % 16 = SpecDivisor(baud, mode) \div 256

\* initialize(dou_async, 200) on the fourth unit has returned with the
\* divisor 624 in the register pair.
C1_Witness ==
    /\ op = "initialize" /\ pc = "done" /\ ret = "unit"
    /\ UnitAt(self) = "usart3" /\ mode = "dou_async" /\ baud = 200
    /\ SpecDivisor(baud, mode) = 624
    /\ ubrrl[self] = 112 /\ ubrrh[self] % 16 = 2

(***************************************************************************)
(* C2: for every clocked mode and every baud whose divisor is negative or  *)
(* above 4095, initialize ends by returning UnsupportedDivisor and every    *)
(* register holds the value it had before the call.                        *)
(***************************************************************************)
C2_UnsupportedDivisorRejected ==
    (op = "initialize" /\ mode # "slave_sync"
        /\ SpecDivisor(baud, mode) \notin 0..4095
        /\ pc \in {"done", "panic"}) =>
        /\ ret = "UnsupportedDivisor"
        /\ Config(Snapshot) = Config(entry)

(***************************************************************************)
(* C3: when initialize returns, the global interrupt flag is what it was   *)
(* when initialize was called.                                             *)
(***************************************************************************)
C3_InterruptMaskRestored ==
    (op = "initialize" /\ pc = "done") =>
        (IntEnabled(sreg) <=> IntEnabled(entry.sreg))

(***************************************************************************)
(* C4: every path of initialize that disables the global interrupts        *)
(* enables them again exactly once before the call ends, also when the     *)
(* call ends in an abort: no call ends with the interrupts left disabled.  *)
(***************************************************************************)
C4_GuardReleasedOnEveryPath ==
    (op = "initialize" /\ pc \in {"done", "panic"}
        /\ Occurrences(trace, "disable") > 0) =>
        /\ Occurrences(trace, "enable") = 1
        /\ IntEnabled(sreg)

(***************************************************************************)
(* C5: every register write of initialize happens with the global          *)
(* interrupts disabled, and no interrupt handler runs between the first    *)
(* and the last configuration write of a call.                             *)
(***************************************************************************)
C5_WritesUnderGuard ==
    [][ /\ (op = "initialize" /\ ProgramWrite) => ~IntEnabled(sreg)
        /\ (op = "initialize" /\ isr_at' # isr_at) => pc \notin MidConfiguration
      ]_vars

C5_Witness ==
    /\ op = "initialize" /\ pc = "stop"
    /\ IntEnabled(entry.sreg) /\ ~IntEnabled(sreg)
    /\ isr_at = "wait"
    /\ Config(Snapshot) # Config(entry)

(***************************************************************************)
(* C6: initialize disables no interrupt and writes no register unless its  *)
(* latest read of UCSRA showed TXC set and RXC clear; the check leaves     *)
(* the wait exactly on that pattern and writes nothing.                    *)
(***************************************************************************)
C6_GateBeforeAnyStep ==
    [][ /\ (op = "initialize" /\ pc # "wait" /\ (regs' # regs \/ sreg' # sreg))
              => IdlePattern(lastread)
        /\ (op = "initialize" /\ pc = "wait" /\ pc' # "wait")
              => /\ IdlePattern(ucsra[self])
                 /\ lastread' = ucsra[self]
                 /\ regs' = regs /\ sreg' = sreg
        /\ (op = "initialize" /\ pc = "wait" /\ pc' = "wait" /\ lastread' # lastread)
              => /\ ~IdlePattern(ucsra[self])
                 /\ lastread' = ucsra[self]
                 /\ regs' = regs /\ sreg' = sreg
      ]_vars

C6_Witness ==
    /\ op = "initialize" /\ pc = "set_power"
    /\ ~IdlePattern(entry.ucsra[self])
    /\ IdlePattern(lastread)
    /\ sreg # entry.sreg

(***************************************************************************)
(* C7: the steps of one initialize call occur in the order gate, interrupt *)
(* disable, power, mode and clock, frame, interrupt enable, each once; the *)
(* power-reduction bit of the unit is clear before any write to its        *)
(* control or divisor registers or to the clock-line direction.            *)
(***************************************************************************)
StepOrder == <<"gate", "disable", "set_power", "mode_select", "set_frame", "enable">>

\* The steps taken, the clock programming counted with the mode selection.
StepsTaken == SelectSeq(trace, LAMBDA e : e # "set_clock")

PowerBitClear(n) ==
    CASE n = "usart0" -> Bit(prr0, 1) = 0
      [] n = "usart1" -> Bit(prr1, 0) = 0
      [] n = "usart2" -> Bit(prr1, 1) = 0
      [] n = "usart3" -> Bit(prr1, 2) = 0

C7_StepOrder ==
    [][ /\ op' = "initialize" =>
              /\ Len(StepsTaken') <= Len(StepOrder)
              /\ StepsTaken' = SubSeq(StepOrder, 1, Len(StepsTaken'))
              /\ Occurrences(trace', "set_clock") <= 1
              /\ (Occurrences(trace', "set_clock") = 1) =>
                    (mode' # "slave_sync" /\ Occurrences(trace', "mode_select") = 1)
              /\ pc' = "done" =>
                    /\ StepsTaken' = StepOrder
                    /\ (mode' # "slave_sync") => Occurrences(trace', "set_clock") = 1
        /\ (op = "initialize" /\ pc' # pc
              /\ <<ucsra, ucsrb, ucsrc, ubrrl, ubrrh, ddr>>' #
                 <<ucsra, ucsrb, ucsrc, ubrrl, ubrrh, ddr>>)
              => PowerBitClear(UnitAt(self))
      ]_vars

C7_Witness ==
    /\ op = "initialize" /\ pc = "done"
    /\ mode = "master_sync"
    /\ entry.prr0 = 255 /\ entry.prr1 = 63
    /\ PowerBitClear(UnitAt(self))
    /\ trace = <<"gate", "disable", "set_power", "mode_select", "set_clock",
                 "set_frame", "enable">>

(***************************************************************************)
(* C8: after set_frame the frame fields hold the encoding of the requested *)
(* data size, parity and stop bits, whatever the registers held before.    *)
(***************************************************************************)
SizeBits(sz) ==
    CASE sz = "five"  -> <<0, 0, 0>>
      [] sz = "six"   -> <<0, 0, 1>>
      [] sz = "seven" -> <<0, 1, 0>>
      [] sz = "eight" -> <<0, 1, 1>>
      [] sz = "nine"  -> <<1, 1, 1>>

ParityBits(p) ==
    CASE p = "no" -> <<0, 0>> [] p = "even" -> <<1, 0>> [] p = "odd" -> <<1, 1>>

StopBit(st) == IF st = "two" THEN 1 ELSE 0

C8_FrameTable ==
    (op = "initialize" /\ pc \in {"enable", "done"}) =>
        /\ <<Bit(ucsrb[self], 2), Bit(ucsrc[self], 2), Bit(ucsrc[self], 1)>> = SizeBits(size)
        /\ <<Bit(ucsrc[self], 5), Bit(ucsrc[self], 4)>> = ParityBits(parity)
        /\ Bit(ucsrc[self], 3) = StopBit(stop)

C8_Witness ==
    /\ op = "initialize" /\ pc = "done"
    /\ size = "seven" /\ parity = "even" /\ stop = "one"
    /\ entry.ucsrc[self] = 255 /\ entry.ucsrb[self] = 220
    /\ ucsrc[self] # entry.ucsrc[self]

(***************************************************************************)
(* C9: after mode_select(m) UCSRC bits 7:6, the double-speed bit and, for  *)
(* the synchronous modes, the XCK direction bit hold the encoding of m,    *)
(* whatever they held before.                                              *)
(***************************************************************************)
AfterModeSelectDone ==
    \/ op = "mode_select" /\ pc = "done"
    \/ op = "initialize" /\ pc \in {"clock_l", "clock_h", "size_b", "size_c2",
                                    "size_c1", "parity", "stop", "enable", "done"}

XckDirection(n) == Bit(ddr[get_port(n)], get_xck(n))

C9_ModeTable ==
    AfterModeSelectDone =>
        /\ <<Bit(ucsrc[self], 7), Bit(ucsrc[self], 6)>> =
              (IF mode \in {"norm_async", "dou_async"} THEN <<0, 0>> ELSE <<0, 1>>)
        /\ Bit(ucsra[self], 1) = (IF mode = "dou_async" THEN 1 ELSE 0)
        /\ mode = "master_sync" => XckDirection(UnitAt(self)) = 1
        /\ mode = "slave_sync" => XckDirection(UnitAt(self)) = 0

C9_Witness ==
    /\ op = "mode_select" /\ pc = "done"
    /\ mode = "slave_sync"
    /\ Bit(entry.ucsra[self], 1) = 1
    /\ Bit(entry.ucsrc[self], 7) = 1
    /\ Bit(entry.ddr[get_port(UnitAt(self))], get_xck(UnitAt(self))) = 1

(***************************************************************************)
(* C10: initialize with slave_sync on an idle unit returns normally for    *)
(* every baud, leaves UBRRL and UBRRH as they were and the XCK direction   *)
(* bit clear; set_clock is never entered with slave_sync.                  *)
(***************************************************************************)
C10_SlaveSyncNoDivisor ==
    (op = "initialize" /\ mode = "slave_sync") =>
        /\ pc \notin {"panic", "clock_l", "clock_h"}
        /\ pc = "done" =>
              /\ ubrrl[self] = entry.ubrrl[self]
              /\ ubrrh[self] = entry.ubrrh[self]
              /\ XckDirection(UnitAt(self)) = 0

\* initialize(slave_sync) has returned on a unit whose divisor registers
\* held a value before the call.
C10_Witness ==
    /\ op = "initialize" /\ mode = "slave_sync" /\ pc = "done"
    /\ ret = "unit"
    /\ entry.ubrrl[self] # 0
    /\ ubrrl[self] = entry.ubrrl[self] /\ ubrrh[self] = entry.ubrrh[self]
    /\ XckDirection(UnitAt(self)) = 0

(***************************************************************************)
(* C11: starting with the clock line as input, after any sequence of       *)
(* completed initialize calls a unit's XCK direction bit is output only    *)
(* if the most recent initialize on that unit had mode master_sync.        *)
(* mode_select writes the direction bit in its two synchronous arms only,  *)
(* so an asynchronous call leaves the line as the last synchronous call    *)
(* set it.                                                                 *)
(***************************************************************************)
\* The clock line of each unit: its port and its bit in the port's DDR.
ClockLine(n) ==
    CASE n = "usart0" -> [port |-> "E", bit |-> 2]
      [] n = "usart1" -> [port |-> "D", bit |-> 5]
      [] n = "usart2" -> [port |-> "H", bit |-> 2]
      [] n = "usart3" -> [port |-> "J", bit |-> 2]

Driven(d, n) == Bit(d[ClockLine(n).port], ClockLine(n).bit) = 1

BetweenCalls == pc \in {"idle", "done"}

\* C11 as stated: driven only if the most recent initialize was master_sync.
C11_DrivenOnlyIfLastCallMaster ==
    BetweenCalls =>
        \A n \in UsartNum : Driven(ddr, n) => hist[new(n)].last = "master_sync"

\* C11, amended: after any sequence of completed initialize calls, starting
\* with the clock line as input, a unit's XCK direction bit is output only
\* if the most recent initialize with a synchronous mode on that unit was
\* master_sync; it is input if that call was slave_sync or there was none.
C11_DrivenOnlyIfLastSyncCallMaster ==
    BetweenCalls =>
        \A n \in UsartNum :
            /\ Driven(ddr, n) => hist[new(n)].sync = "master_sync"
            /\ hist[new(n)].sync \in {"slave_sync", "none"} => ~Driven(ddr, n)

\* A master_sync call, then an asynchronous call on the same unit: the
\* second call has returned and the line is still driven.
C11_Witness ==
    /\ pc = "done" /\ calls = 2
    /\ hist[self] = [last |-> "dou_async", sync |-> "master_sync"]
    /\ Driven(entry.ddr, UnitAt(self))
    /\ Driven(ddr, UnitAt(self))

(***************************************************************************)
(* C12: for any mode and any baud > 0, once set_clock has written to the   *)
(* divisor registers the divisor lies in 0..4095 (no part of a divisor     *)
(* that does not fit in 12 bits is stored), and once set_clock has run the *)
(* value UBRRH:UBRRL of the unit is the divisor and bits 4..7 of UBRRH are *)
(* as they were.                                                           *)
(***************************************************************************)
\* set_clock has written UBRRL.
SetClockWrote ==
    /\ op = "initialize"
    /\ Occurrences(trace, "set_clock") = 1
    /\ pc # "clock_l"

SetClockDone ==
    /\ op = "initialize"
    /\ Occurrences(trace, "set_clock") = 1
    /\ Occurrences(trace, "set_frame") = 1

C12_StoredDivisorFitsTwelveBits ==
    /\ SetClockWrote => SpecDivisor(baud, mode) \in 0..4095
    /\ SetClockDone =>
          /\ (ubrrh[self] % 16) * 256 + ubrrl[self] = SpecDivisor(baud, mode)
          /\ ubrrh[self] \div 16 = entry.ubrrh[self] \div 16

\* Side check: the high register is written only with a divisor that fits,
\* and bits 4..7 of UBRRH are never changed by the call.
C12_HighRegisterGuarded ==
    /\ SetClockDone =>
          /\ SpecDivisor(baud, mode) \in 0..4095 \/ ubrr.lo \in 0..4095
          /\ (ubrrh[self] % 16) * 256 + ubrrl[self] = ubrr.lo
    /\ op = "initialize" => ubrrh[self] \div 16 = entry.ubrrh[self] \div 16

\* set_clock took the divisor 4165 of (norm_async, 15), stored its low byte
\* 69 in UBRRL and aborted at the write of UBRRH.
C12_LowByteStored ==
    /\ op = "initialize" /\ pc = "panic"
    /\ mode = "norm_async" /\ baud = 15
    /\ SpecDivisor(baud, mode) = 4165
    /\ ubrrl[self] = 69 /\ entry.ubrrl[self] # 69
    /\ ubrrh[self] = entry.ubrrh[self]

(***************************************************************************)
(* C13: for each of the four units n, the handle made by new(n) resolves   *)
(* back to n: get_num returns n and never reaches its unreachable arm,     *)
(* and get_xck, get_td, get_rd return the table values.                    *)
(***************************************************************************)
PinTable(n) ==
    CASE n = "usart0" -> <<2, 1, 0>>
      [] n = "usart1" -> <<5, 3, 2>>
      [] n = "usart2" -> <<2, 1, 0>>
      [] n = "usart3" -> <<2, 1, 0>>

GetNumReturned == op = "initialize" /\ Occurrences(trace, "disable") = 1 /\ pc # "get_num"

C13_HandleResolvesToItsUnit ==
    /\ \A n \in UsartNum : <<get_xck(n), get_td(n), get_rd(n)>> = PinTable(n)
    /\ GetNumReturned => (num # "unreachable" /\ num = UnitAt(self))

\* get_num has returned usart3 for the handle of the fourth unit and the
\* call has gone on to its end.
C13_Witness ==
    /\ GetNumReturned /\ pc = "done"
    /\ self = new("usart3") /\ num = "usart3"

(***************************************************************************)
(* C14: for every unit, mode, baud > 0 and frame choice, once initialize   *)
(* has left the gate and disabled interrupts, no state before its return   *)
(* is a dead end: the call has returned or its next step can be taken.     *)
(***************************************************************************)
GuardAcquired == op = "initialize" /\ Occurrences(trace, "disable") = 1

C14_NoDeadEndUnderGuard ==
    GuardAcquired => (pc = "done" /\ ret = "unit") \/ (pc # "panic" /\ ENABLED Step)

(***************************************************************************)
(* C15: while the status register does not show the idle pattern (bit 6    *)
(* set and bit 7 clear), initialize stays in its wait and changes nothing: *)
(* its poll writes no register, the configuration and the global interrupt *)
(* mask stay as they were, nothing is returned, and the next poll is       *)
(* always possible (no iteration bound, no timeout).                       *)
(***************************************************************************)
WaitingNotIdle == op = "initialize" /\ pc = "wait" /\ ~IdlePattern(ucsra[self])

C15_WaitChangesNothing ==
    [][WaitingNotIdle =>
          /\ pc' = "wait"
          /\ ENABLED Wait
          /\ sreg' = sreg
          /\ ret' = ret /\ trace' = trace
          /\ Config(Snapshot)' = Config(Snapshot)
          /\ (lastread' # lastread => regs' = regs)]_vars

\* A poll has read a status that is not idle, and the call still waits with
\* the configuration and the mask as they were when it began.
C15_Witness ==
    /\ WaitingNotIdle
    /\ lastread = ucsra[self] /\ ~IdlePattern(lastread)
    /\ Config(Snapshot) = Config(entry)
    /\ ret = "none"

(***************************************************************************)
(* C16: while initialize is in its busy-wait, and up to the moment it      *)
(* disables interrupts, no interrupt handler runs and writes the unit:     *)
(* in particular not between the status read that showed idle and the      *)
(* acquisition of the guard.                                               *)
(***************************************************************************)
BeforeGuard == op = "initialize" /\ pc \in {"wait", "disable"}

C16_NoWriterBeforeGuard ==
    BeforeGuard => (isr_at = "none" /\ udr[self] = entry.udr[self])

(***************************************************************************)
(* C17: set_power(n) clears exactly the power-reduction bit of unit n      *)
(* (usart0: PRR0 bit 1, usart1: PRR1 bit 0, usart2: PRR1 bit 1, usart3:    *)
(* PRR1 bit 2) and leaves every other bit of PRR0 and PRR1 as it was;      *)
(* applied twice it gives the same registers as applied once, from any     *)
(* starting register values.                                               *)
(***************************************************************************)
PowerBit(n) ==
    CASE n = "usart0" -> [reg |-> 0, bit |-> 1]
      [] n = "usart1" -> [reg |-> 1, bit |-> 0]
      [] n = "usart2" -> [reg |-> 1, bit |-> 1]
      [] n = "usart3" -> [reg |-> 1, bit |-> 2]

\* Register reg of the pair: only the bit of unit n differs from before.
OnlyPowerBitCleared(before, after, reg, n) ==
    \A i \in 0 .. 7 :
        Bit(after, i) = IF PowerBit(n) = [reg |-> reg, bit |-> i] THEN 0 ELSE Bit(before, i)

C17_SetPowerClearsOneBit ==
    (op = "set_power" /\ calls >= 1) =>
        /\ OnlyPowerBitCleared(entry.prr0, prr0, 0, num)
        /\ OnlyPowerBitCleared(entry.prr1, prr1, 1, num)
        /\ prr0 = set_power_prr0(prr0, num)
        /\ prr1 = set_power_prr1(prr1, num)

\* set_power(usart2) applied twice to registers with every bit set.
C17_Witness ==
    /\ op = "set_power" /\ calls = 2 /\ num = "usart2"
    /\ entry.prr0 = 255 /\ entry.prr1 = 63
    /\ prr0 = 255 /\ prr1 = 61

(***************************************************************************)
(* C19: the three frame writes commute: for every data size, parity and    *)
(* stop-bit choice and every starting register content, set_size,          *)
(* set_parity and set_stop applied in any of the six orders give the same  *)
(* final UCSRB and UCSRC: each field as the frame table has it, every      *)
(* other bit as it was.                                                    *)
(***************************************************************************)
FrameOrders ==
    {<<"set_size", "set_parity", "set_stop">>, <<"set_size", "set_stop", "set_parity">>,
     <<"set_parity", "set_size", "set_stop">>, <<"set_parity", "set_stop", "set_size">>,
     <<"set_stop", "set_size", "set_parity">>, <<"set_stop", "set_parity", "set_size">>}

\* Bit i of UCSRC after the three writes, whatever their order.
FrameBitC(before, i, sz, p, st) ==
    CASE i = 1 -> SizeBits(sz)[3]
      [] i = 2 -> SizeBits(sz)[2]
      [] i = 3 -> StopBit(st)
      [] i = 4 -> ParityBits(p)[2]
      [] i = 5 -> ParityBits(p)[1]
      [] OTHER -> Bit(before, i)

FrameBitB(before, i, sz) == IF i = 2 THEN SizeBits(sz)[1] ELSE Bit(before, i)

C19_FrameWritesCommute ==
    (op = "set_frame" /\ trace \in FrameOrders) =>
        \A i \in 0 .. 7 :
            /\ Bit(ucsrc[self], i) = FrameBitC(entry.ucsrc[self], i, size, parity, stop)
            /\ Bit(ucsrb[self], i) = FrameBitB(entry.ucsrb[self], i, size)

\* The order opposite to set_frame's, on a register with every bit set and
\* a frame that clears all five of its bits.
C19_Witness ==
    /\ op = "set_frame"
    /\ trace = <<"set_stop", "set_parity", "set_size">>
    /\ size = "five" /\ parity = "no" /\ stop = "one"
    /\ entry.ucsrc[self] = 255 /\ entry.ucsrb[self] = 255
    /\ ucsrc[self] = 193 /\ ucsrb[self] = 251

(***************************************************************************)
(* C18: a call of initialize on unit u leaves unchanged every register of  *)
(* every other unit v (UCSRA, UCSRB, UCSRC, UBRRL, UBRRH, UDR), the        *)
(* power-reduction bit of every other unit, also of those that share PRR1  *)
(* with u, and the clock-line direction bit of every other unit.           *)
(***************************************************************************)
UnitRegs(r, v) ==
    <<r.ucsra[new(v)], r.ucsrb[new(v)], r.ucsrc[new(v)],
      r.ubrrl[new(v)], r.ubrrh[new(v)], r.udr[new(v)]>>

PowerBitOf(r, v) ==
    Bit(IF PowerBit(v).reg = 0 THEN r.prr0 ELSE r.prr1, PowerBit(v).bit)

C18_OtherUnitsUntouched ==
    op = "initialize" =>
        \A v \in UsartNum \ {UnitAt(self)} :
            /\ UnitRegs(Snapshot, v) = UnitRegs(entry, v)
            /\ PowerBitOf(Snapshot, v) = PowerBitOf(entry, v)
            /\ Driven(ddr, v) = Driven(entry.ddr, v)

\* initialize(slave_sync, ..) on usart1 has returned: it cleared its own
\* bit of PRR1, which usart2 and usart3 share, and released its clock line.
C18_Witness ==
    /\ op = "initialize" /\ pc = "done"
    /\ UnitAt(self) = "usart1" /\ mode = "slave_sync"
    /\ entry.prr1 = 63 /\ prr1 = 62
    /\ entry.ddr["D"] = 255 /\ ddr["D"] = 223
    /\ ucsrc[self] # entry.ucsrc[self]

(***************************************************************************)
(* C20: starting from a supported data-size encoding, in every reachable   *)
(* state, the states between the bit writes of set_size included, the      *)
(* triple (UCSRB bit 2, UCSRC bit 2, UCSRC bit 1) of a unit is one of the  *)
(* supported encodings 000, 001, 010, 011, 111, never 100, 101 or 110.     *)
(* set_size writes the three bits one after the other, UCSRB first, so     *)
(* between its writes the triple can hold a mix of the old and the new     *)
(* size.                                                                   *)
(***************************************************************************)
SizeTriple(a) == <<Bit(ucsrb[a], 2), Bit(ucsrc[a], 2), Bit(ucsrc[a], 1)>>

Supported == {SizeBits(sz) : sz \in UsartDataSize}

InsideSetSize == pc \in {"size_c2", "size_c1"}

\* C20 as stated: in every state, between the writes of set_size too.
C20_SizeEncodingAlwaysSupported ==
    \A a \in Addr : SizeTriple(a) \in Supported

\* C20, amended: starting from a supported encoding, in every reachable
\* state that is not between two bit writes of set_size the triple of every
\* unit is a supported encoding; between the writes only the unit being
\* configured can hold a reserved value.
C20_SizeEncodingSupportedOutsideSetSize ==
    \A a \in Addr : (InsideSetSize /\ a = self) \/ SizeTriple(a) \in Supported

\* A second call has changed a unit from five to nine data bits.
C20_Witness ==
    /\ pc = "done" /\ calls = 2 /\ size = "nine"
    /\ <<Bit(entry.ucsrb[self], 2), Bit(entry.ucsrc[self], 2), Bit(entry.ucsrc[self], 1)>>
          = SizeBits("five")
    /\ SizeTriple(self) = SizeBits("nine")

(***************************************************************************)
(* C21: a call of initialize on a unit on which no transmission or         *)
(* reception is in progress eventually passes the Quiescence Gate, also    *)
(* on a unit that has never transmitted and whose status register still    *)
(* holds its reset value, with the transmit-complete flag clear.           *)
(***************************************************************************)
PassedGate == Occurrences(trace, "gate") = 1

C21_IdleUnitPassesGate ==
    (op = "initialize" /\ pc = "wait") ~> PassedGate

(***************************************************************************)
(* C22: initialize changes no bit other than the unit's own power bit,     *)
(* UCSRA bit 1, UCSRB bit 2, UCSRC bits 1..7, UBRRL, UBRRH bits 0..3, the  *)
(* unit's XCK bit of its port's direction register and, transiently, the   *)
(* global interrupt flag: UCSRB bits 6 and 7, UCSRC bit 0, UDR and every   *)
(* other direction bit are as before, the direction register is not       *)
(* written in the asynchronous modes, and the interrupt flag is back at    *)
(* its value at entry when the call has returned.  (UCSRA bits 6 and 7     *)
(* are the hardware's, UDR is compared when no handler has run.)           *)
(***************************************************************************)
SameBits(before, after, bits) == \A i \in bits : Bit(after, i) = Bit(before, i)

OnlyListedBitsChanged ==
    LET u == UnitAt(self) IN
    /\ SameBits(entry.ucsra[self], ucsra[self], {0, 2, 3, 4, 5})
    /\ SameBits(entry.ucsrb[self], ucsrb[self], (0 .. 7) \ {2})
    /\ SameBits(entry.ucsrc[self], ucsrc[self], {0})
    /\ SameBits(entry.ubrrh[self], ubrrh[self], 4 .. 7)
    /\ isr_at = "none" => udr[self] = entry.udr[self]
    /\ SameBits(entry.prr0, prr0, (0 .. 7) \ (IF PowerBit(u).reg = 0 THEN {PowerBit(u).bit} ELSE {}))
    /\ SameBits(entry.prr1, prr1, (0 .. 7) \ (IF PowerBit(u).reg = 1 THEN {PowerBit(u).bit} ELSE {}))
    /\ \A p \in PortName :
          SameBits(entry.ddr[p], ddr[p],
                   (0 .. 7) \ (IF p = ClockLine(u).port THEN {ClockLine(u).bit} ELSE {}))
    /\ mode \in {"norm_async", "dou_async"} => ddr = entry.ddr
    /\ \A v \in UsartNum \ {u} : UnitRegs(Snapshot, v) = UnitRegs(entry, v)

C22_OnlyListedBitsChangeFlagTransient ==
    op = "initialize" =>
        /\ OnlyListedBitsChanged
        /\ pc = "done" => sreg = entry.sreg

\* The frame alone, without the interrupt flag (used to locate the failure).
C22_FrameAlone == op = "initialize" => OnlyListedBitsChanged

(***************************************************************************)
(* C23: the configuration initialize leaves depends only on the arguments  *)
(* of the last call: after initialize(A) and then initialize(B) on an idle *)
(* unit, the mode bits (UCSRC 7:6), the double-speed bit, the frame bits   *)
(* and, unless B's mode is slave_sync, the divisor registers are what      *)
(* initialize(B) alone leaves from the reset state; so initialize(A)       *)
(* twice leaves what initialize(A) once leaves.                            *)
(***************************************************************************)
\* What one call with these arguments leaves from the reset state.
LeftByOneCall(m, b, st, sz, p) ==
    [modebits |-> IF m \in {"norm_async", "dou_async"} THEN <<0, 0>> ELSE <<0, 1>>,
     u2x      |-> IF m = "dou_async" THEN 1 ELSE 0,
     frame    |-> <<SizeBits(sz), ParityBits(p), StopBit(st)>>,
     divisor  |-> IF m = "slave_sync" THEN "any" ELSE SpecDivisor(b, m)]

\* The same fields, read from the unit's registers.
LeftInRegisters(a, m) ==
    [modebits |-> <<Bit(ucsrc[a], 7), Bit(ucsrc[a], 6)>>,
     u2x      |-> Bit(ucsra[a], 1),
     frame    |-> <<SizeTriple(a), <<Bit(ucsrc[a], 5), Bit(ucsrc[a], 4)>>, Bit(ucsrc[a], 3)>>,
     divisor  |-> IF m = "slave_sync" THEN "any" ELSE ubrrh[a] * 256 + ubrrl[a]]

C23_LastCallDecides ==
    (op = "initialize" /\ pc = "done") =>
        LeftInRegisters(self, mode) = LeftByOneCall(mode, baud, stop, size, parity)

\* The second call has returned; the first had left double speed, a
\* divisor above 255, nine data bits, odd parity and two stop bits, and the
\* second asked for none of these.
C23_Witness ==
    /\ op = "initialize" /\ pc = "done" /\ calls = 2
    /\ Bit(entry.ucsra[self], 1) = 1 /\ entry.ubrrh[self] # 0
    /\ Bit(entry.ucsrb[self], 2) = 1 /\ Bit(entry.ucsrc[self], 4) = 1
    /\ Bit(entry.ucsrc[self], 3) = 1
    /\ mode = "norm_async" /\ baud = 9600
    /\ size = "five" /\ parity = "no" /\ stop = "one"

(***************************************************************************)
(* C24: from the reset state, after any sequence of mode_select,           *)
(* set_polarity and initialize calls, whenever the unit is in an           *)
(* asynchronous mode (UCSRC bit 6 clear) its clock-polarity bit (UCSRC     *)
(* bit 0) is clear; set_polarity changes UCSRC bit 0 only, writing 0 in    *)
(* asynchronous mode whatever its argument and, in synchronous mode, 0     *)
(* for output_rise and 1 for input_rise.                                   *)
(***************************************************************************)
Asynchronous(src) == Bit(src, 6) = 0

SetPolarityEffect ==
    /\ SameBits(entry.ucsrc[self], ucsrc[self], 1 .. 7)
    /\ Bit(ucsrc[self], 0) =
          (IF Asynchronous(entry.ucsrc[self]) THEN 0
           ELSE IF polarity = "input_rise" THEN 1 ELSE 0)
    /\ [Snapshot EXCEPT !.ucsrc = entry.ucsrc] = entry

C24_AsyncKeepsPolarityClear ==
    BetweenCalls =>
        /\ \A a \in Addr : Asynchronous(ucsrc[a]) => Bit(ucsrc[a], 0) = 0
        /\ (op = "set_polarity" /\ pc = "done") => SetPolarityEffect

\* The effect of set_polarity alone.
C24_SetPolarityAlone == (op = "set_polarity" /\ pc = "done") => SetPolarityEffect

(***************************************************************************)
(* C25: the watchdog disable sequence.                                     *)
(***************************************************************************)
\* The ATmega328P register summary: MCUSR is at 0x54, MCUCR at 0x55,
\* WDTCSR at 0x60.
Registers328p == [mcusr |-> 84, mcucr |-> 85, wdtcsr |-> 96]

DisableOrder == <<"interrupt_disable", "reset_watchdog", "wdtcsr_change_enable",
                  "wdtcsr_zero", "interrupt_enable">>

IsPrefix(s, t) == Len(s) <= Len(t) /\ SubSeq(t, 1, Len(s)) = s

DisableReturned == op = "disable" /\ pc = "done"

\* Watchdog::disable performs, in this order, the global interrupt disable,
\* the clear of MCUSR bits 3..7 with bits 0..2 kept, the write of WDTCSR
\* with bits 3 and 4 set and the rest kept, the write of WDTCSR = 0 and the
\* global interrupt enable; no handler runs between the two WDTCSR writes
\* and WDTCSR is 0 on return.
C25_DisableSequenceOnMcusr ==
    /\ op = "disable" => IsPrefix(trace, DisableOrder)
    /\ (op = "disable" /\ pc \in {"wd_read", "wd_write1", "wd_write2", "wd_sei", "done"})
          => io328[Registers328p.mcusr] = entry.io328[Registers328p.mcusr] % 8
    /\ (op = "disable" /\ pc = "wd_write2")
          => /\ io328[Registers328p.wdtcsr]
                  = set_bits(entry.io328[Registers328p.wdtcsr], 3, 5, 3)
             /\ ~IntEnabled(sreg)
    /\ op = "disable" => isr_at \notin {"wd_write2", "wd_write1", "wd_read", "wd_reset", "wd_sei"}
    /\ DisableReturned
          => /\ trace = DisableOrder
             /\ io328[Registers328p.wdtcsr] = 0
             /\ IntEnabled(sreg)

\* Side check, for every placement of the fields: the five steps come in
\* the stated order, the interrupts are off from the first to the last, no
\* handler runs in between, and MCUSR is never written.  With the fields
\* where rustc places them the two writes go to WDTCSR, which is 0 on
\* return, and the and-ed byte is the status register.
C25_OrderAndGuard ==
    /\ op = "disable" => IsPrefix(trace, DisableOrder)
    /\ (op = "disable" /\ pc \in {"wd_reset", "wd_read", "wd_write1", "wd_write2", "wd_sei"})
          => ~IntEnabled(sreg)
    /\ op = "disable" => isr_at \notin {"wd_write2", "wd_write1", "wd_read", "wd_reset", "wd_sei"}
    /\ io328[Registers328p.mcusr] = entry.io328[Registers328p.mcusr]
    /\ DisableReturned => (trace = DisableOrder /\ IntEnabled(sreg))
    /\ (DisableReturned /\ arg = [mcusr |-> 10, wdtcsr |-> 11])
          => /\ io328[Registers328p.wdtcsr] = 0
             /\ sreg = 128 + (entry.sreg % 8)

\* The watchdog reset flag was set at the call and is still set at the
\* return, with the fields where rustc places them.
C25_FlagSurvives ==
    /\ DisableReturned
    /\ arg = [mcusr |-> 10, wdtcsr |-> 11]
    /\ get_bit(entry.io328[Registers328p.mcusr], 3)
    /\ get_bit(io328[Registers328p.mcusr], 3)

(***************************************************************************)
(* C26, C27, C28: the settings of the MPU6050.                             *)
(***************************************************************************)
\* The calls on the sensor that have returned, in order.
SensorCalls == 1 .. Len(trace)

\* A call of one of the functions fns is running or has run, and it has not
\* ended in a panic.
Returns(fns) == op \in fns => pc # "panic"

\* Between before and after only bits lo..hi-1 of register reg may differ.
OnlyFieldChanged(before, after, reg, lo, hi) ==
    /\ \A r \in MpuRegs \ {reg} : after[r] = before[r]
    /\ set_bits(after[reg], lo, hi, 0) = set_bits(before[reg], lo, hi, 0)

\* Call i is get and the call before it was set.
SetThenGet(i, set, get) == i > 1 /\ trace[i].fn = get /\ trace[i - 1].fn = set

\* The multi-bit settings and the field each owns.
MultiBitSettings ==
    {[set |-> "set_scale", get |-> "get_scale", reg |-> MPU6050_REG_GYRO_CONFIG, lo |-> 3, hi |-> 5],
     [set |-> "set_range", get |-> "get_range", reg |-> MPU6050_REG_ACCEL_CONFIG, lo |-> 3, hi |-> 5],
     [set |-> "set_clock_source", get |-> "get_clock_source", reg |-> MPU6050_REG_PWR_MGMT_1,
      lo |-> 0, hi |-> 3],
     [set |-> "set_accel_power_on_delay", get |-> "get_accel_power_on_delay",
      reg |-> MPU6050_REG_MOT_DETECT_CTRL, lo |-> 4, hi |-> 6]}

\* The names of the setters and getters of a set of settings.
Functions(settings) == {s.set : s \in settings} \cup {s.get : s \in settings}

\* C26: for gyroscope scale, accelerometer range, clock source and
\* accelerometer power-on delay, set(v) and get return, get after set(v)
\* returns v, and set changes only the bits of its own field.
C26_MultiBitSettingsRoundTrip ==
    /\ Returns(Functions(MultiBitSettings))
    /\ \A i \in SensorCalls : \A s \in MultiBitSettings :
          /\ trace[i].fn = s.set
                => OnlyFieldChanged(trace[i].before, trace[i].after, s.reg, s.lo, s.hi)
          /\ SetThenGet(i, s.set, s.get) => trace[i].ret = trace[i - 1].arg

\* set_scale(2000 dps) has ended in a panic at its first register access:
\* GYRO_CONFIG holds what it held and no call has returned.
C26_SetScalePanics ==
    /\ op = "set_scale"
    /\ arg = "MPU6050Scale2000DPS"
    /\ pc = "panic"
    /\ mpu = entry
    /\ trace = <<>>

\* The boolean flags and the register each lives in.
Flags ==
    {[set |-> "set_int_free_fall_enabled", get |-> "get_int_free_fall_enabled",
      reg |-> MPU6050_REG_INT_ENABLE],
     [set |-> "set_int_motion_enabled", get |-> "get_int_motion_enabled",
      reg |-> MPU6050_REG_INT_ENABLE],
     [set |-> "set_int_zero_motion_enabled", get |-> "get_int_zero_motion_enabled",
      reg |-> MPU6050_REG_INT_ENABLE],
     [set |-> "set_sleep_enabled", get |-> "get_sleep_enabled", reg |-> MPU6050_REG_PWR_MGMT_1],
     [set |-> "set_i2c_master_mode_enabled", get |-> "get_i2c_master_mode_enabled",
      reg |-> MPU6050_REG_USER_CTRL],
     [set |-> "set_i2c_byepass_enabled", get |-> "get_i2c_byepass_enabled",
      reg |-> MPU6050_REG_INT_PIN_CFG]}

\* The getter of a flag on register file m.
FlagGetter(get, m) ==
    CASE get = "get_int_free_fall_enabled" -> get_int_free_fall_enabled(m)
      [] get = "get_int_motion_enabled" -> get_int_motion_enabled(m)
      [] get = "get_int_zero_motion_enabled" -> get_int_zero_motion_enabled(m)
      [] get = "get_sleep_enabled" -> get_sleep_enabled(m)
      [] get = "get_i2c_master_mode_enabled" -> get_i2c_master_mode_enabled(m)
      [] get = "get_i2c_byepass_enabled" -> get_i2c_byepass_enabled(m)

\* C27: for the free-fall, motion and zero-motion interrupt flags, sleep, I2C
\* master mode and I2C bypass, set(s) and get return, get after set(s)
\* returns s, and setting one flag never changes what the getter of another
\* flag of the same register returns.
C27_FlagsRoundTripAndIndependent ==
    /\ Returns(Functions(Flags))
    /\ \A i \in SensorCalls : \A f \in Flags :
          /\ SetThenGet(i, f.set, f.get) => trace[i].ret = trace[i - 1].arg
          /\ trace[i].fn = f.set
                => \A g \in Flags \ {f} :
                      g.reg = f.reg
                         => FlagGetter(g.get, trace[i].after)
                               = FlagGetter(g.get, trace[i].before)

\* set_int_motion_enabled(true) has ended in a panic at its first register
\* access: INT_ENABLE holds what it held and no call has returned.
C27_SetMotionPanics ==
    /\ op = "set_int_motion_enabled"
    /\ arg = TRUE
    /\ pc = "panic"
    /\ mpu = entry
    /\ trace = <<>>

\* The low-pass field of CONFIG, bits 0..2.
LowPassBits(m) == m[MPU6050_REG_CONFIG] % 8

\* C28: set_dlpf_mode and set_dhpf_mode return, set_dlpf_mode changes only
\* bits 0..2 of CONFIG, and set_dhpf_mode leaves the low-pass setting as it
\* was.
C28_FiltersDoNotDisturb ==
    /\ Returns({"set_dlpf_mode", "set_dhpf_mode"})
    /\ \A i \in SensorCalls :
          /\ trace[i].fn = "set_dlpf_mode"
                => OnlyFieldChanged(trace[i].before, trace[i].after, MPU6050_REG_CONFIG, 0, 3)
          /\ trace[i].fn = "set_dhpf_mode"
                => LowPassBits(trace[i].after) = LowPassBits(trace[i].before)

\* set_dlpf_mode(dlpf6) has ended in a panic at its first register access:
\* CONFIG holds what it held, here 0, and not the code 6.
C28_SetLowPassPanics ==
    /\ op = "set_dlpf_mode"
    /\ arg = "MPU6050dlpf6"
    /\ pc = "panic"
    /\ mpu = entry
    /\ LowPassBits(mpu) = 0
    /\ trace = <<>>

(***************************************************************************)
(* C29, C30: AnalogPin::read.                                              *)
(***************************************************************************)
\* read has made its channel selection for pin arg.
ChannelSelected ==
    op = "read" /\ pc \in {"adc_start", "adc_status", "adc_wait", "adc_result", "done", "panic"}

\* The digital-input-disable register d holds what it held at the call, and
\* bit b in addition when sets is true.
DidrIs(d, sets, b) ==
    adc[d] = (IF sets THEN set_bit(entry.adc[d], b, TRUE) ELSE entry.adc[d])

\* The registers read leaves for the pins of the set pins.
PinSelection(pins) ==
    /\ (ChannelSelected /\ arg \in pins)
          => /\ adc.admux % 8 = arg % 8
             /\ get_bit(adc.adcsrb, 3) = (arg >= 8)
             /\ DidrIs("didr0", arg < 8, arg % 8)
             /\ DidrIs("didr2", arg >= 8, arg % 8)
             /\ DidrIs("didr1", FALSE, 0)
    /\ (op = "read" /\ pc = "adc_enable") => ~get_bit(prr0, 0)
    /\ (op = "read" /\ pc = "done") => ~get_bit(adc.adcsra, 7)

\* C29: for every pin p in 0..15 read sets bits 0..2 of ADMUX to p mod 8,
\* bit 3 of ADCSRB to p >= 8, and bit p mod 8 of DIDR0 (p < 8) or of DIDR2
\* (p >= 8) and no other DIDR bit; the ADC power-reduction bit is clear
\* before the ADC is enabled and ADCSRA bit 7 is clear at the return.
C29_ReadSelectsPin == PinSelection(AnalogPins)

\* The same for the fifteen pins other than 11.
C29_ReadSelectsPinExcept11 == PinSelection(AnalogPins \ {11})

\* Pin 11 was read with DIDR2 clear: bit 4 of DIDR2 is set and bit 3 is not.
C29_Pin11DisablesInput12 ==
    /\ op = "read" /\ pc = "done" /\ arg = 11
    /\ entry.adc.didr2 = 0
    /\ adc.didr2 = 16

\* C30: for every pin and every behaviour of the flags of the ADC, read
\* ends with a value in 0..1023; the wait loop takes at most 25 iterations,
\* leaves normally and never reaches unreachable!().
C30_ReadReturnsInRange ==
    op = "read"
       => /\ pc # "panic"
          /\ pc = "adc_wait" => local.i \in 0 .. 25
          /\ pc = "done" => ret \in 0 .. 1023

\* What read returns, when it returns, is in 0..1023.
C30_ResultInRangeOnReturn == (op = "read" /\ pc = "done") => ret \in 0 .. 1023

\* The loop has counted 25 down to 0 on a flag it read once, and read has
\* ended in unreachable!().
C30_LoopRanOut == op = "read" /\ pc = "panic" /\ local.i = 0 /\ get_bit(local.adcsra, 4)

\* The loop was passed with a left-adjusted result in the data register,
\* and read has ended in the panic of set_bits with the ADC left enabled.
C30_HighByteTooWide ==
    /\ op = "read" /\ pc = "panic" /\ ~get_bit(local.adcsra, 4)
    /\ adc.adch > 3
    /\ get_bit(adc.adcsra, 7)

====
